---- MODULE Spec2Model ----
(***************************************************************************)
(* Video-generation pipeline: render orchestrator, AI worker, composition  *)
(* worker, segment API, over the shared state store (segments, render      *)
(* jobs), the broker queues and the progress cache.                        *)
(***************************************************************************)
EXTENDS Integers, Sequences, FiniteSets, TLC

(* ------------------------------ bounds -------------------------------- *)
\* number of segment ids the single project may hold
NumSegments == 2
\* number of render jobs that may be created
MaxJobs == 2
\* render jobs created in the orchestrator specification
OrchestratorJobs == 1
\* render jobs created in the worker specification
WorkerJobs == 1
\* render jobs created in the API specification
EditJobs == 1
\* render jobs created in the specification of interleaved sessions
RaceJobs == 2
\* largest order_index a request may carry
MaxOrder == 1
\* cap on RenderJob.segments_completed (the code increments without limit)
MaxCompleted == 3
\* number of times the broker redelivers an unacknowledged message
MaxRedeliver == 1
\* poll attempts of _poll_for_completion (max_attempts, 180 by default)
MaxAttempts == 2
\* jobs submitted to the InMemoryQueue
MaxQueueJobs == 3
\* generations the mock adapter is asked for
MaxMockJobs == 3

\* attempts of initiate_generation: stop_after_attempt(3)
StopAfterAttempt == 3

SegIds == 1..NumSegments
JobIds == 1..MaxJobs
Orders == 0..MaxOrder

(* ------------------------------ values -------------------------------- *)
NULL == "NULL"

\* models/segment.py SegmentStatus
SegmentStatus == {"pending", "generating", "completed", "failed"}
\* models/render_job.py RenderJobStatus
RenderJobStatus == {"pending", "processing", "compositing", "completed", "failed"}

\* S3Client.generate_segment_key + get_url: deterministic per segment
SegmentUrl(s) == "segments/P/" \o ToString(s) \o ".mp4"
\* S3Client.generate_final_video_key + get_url: deterministic per render job
FinalUrl(r) == "renders/P/" \o ToString(r) \o ".mp4"

\* prompts and model_params a request may carry; model_params is told apart
\* by the model it names
DefaultPrompt == "a prompt"
DefaultParams == "mock-ai"
Prompts == {DefaultPrompt, "another prompt"}
ModelParams == {DefaultParams, "runway-gen3"}

\* error messages written by the workers
ErrAdapter == "adapter error"
ErrGeneration == "Unknown error during generation"
ErrTimeout == "Video generation timed out. The service may be overloaded."
ErrInternal == "An unexpected error occurred during video generation."
ErrNoFiles == "No segment files to compose"
ErrFfmpeg == "FFMPEG failed"
ErrNoKeyMethod == "object has no attribute 'generate_composition_key'"
ErrLogName == "name 's3_url' is not defined"
ErrProjectNotFound == "Project not found"
ErrNoSegments == "Project has no segments"
ErrNotFailed == "Can only retry failed segments"
ErrStartRender == "Failed to start render"
ErrCancelled == "Cancelled by user"
ErrSimulated == "Simulated generation failure"
ErrTestVideo == "Failed to generate test video"
ErrConnection == "Cannot connect to ComfyUI service. Please ensure ComfyUI is running."
ErrRequestTimeout == "Request to ComfyUI timed out. The service may be overloaded."
ErrWorkflow == "Invalid workflow configuration"
ErrGenerationFailed == "Video generation failed"

\* adapters/exceptions.py: the errors initiate_generation raises, named by
\* their error_code; "adapter_error" is a plain AdapterError
AdapterErrors == {"adapter_error", "COMFYUI_CONNECTION_ERROR", "COMFYUI_TIMEOUT",
                  "COMFYUI_WORKFLOW_ERROR", "COMFYUI_GENERATION_ERROR"}

\* AdapterError.message
ErrorMessage(e) ==
    CASE e = "adapter_error" -> ErrAdapter
      [] e = "COMFYUI_CONNECTION_ERROR" -> ErrConnection
      [] e = "COMFYUI_TIMEOUT" -> ErrRequestTimeout
      [] e = "COMFYUI_WORKFLOW_ERROR" -> ErrWorkflow
      [] e = "COMFYUI_GENERATION_ERROR" -> ErrGenerationFailed

\* AdapterError.error_code (the class name when none is given)
ErrorCode(e) == IF e = "adapter_error" THEN "AdapterError" ELSE e

\* AdapterError.is_retryable
IsRetryable(e) ==
    e \in {"COMFYUI_CONNECTION_ERROR", "COMFYUI_TIMEOUT", "COMFYUI_GENERATION_ERROR"}

VARIABLES
    segs,         \* Segment rows of the project, by id
    jobs,         \* RenderJob rows in creation order (index = id = created_at rank)
    genQueue,     \* queue segment_generation: tasks not being handled
    compQueue,    \* queue video_composition: tasks not being handled
    redisJobs,    \* progress cache: render_job:{id} hashes
    aiw,          \* the AI worker: position in process_segment_task
    cw,           \* the composition worker: position in process_composition_task
    adapterOp,    \* the adapter operation the latest step called, "none" if none
    apiError,     \* the error the latest request was rejected with, "none" if none
    orch,         \* orchestrator calls in progress: their position and locals
    inMemoryQueue, \* InMemoryQueue: the three deques and the jobs dictionary
    mockJobs      \* MockAIAdapter._jobs, by external job id

vars == <<segs, jobs, genQueue, compQueue, redisJobs, aiw, cw, adapterOp, apiError,
          orch, inMemoryQueue, mockJobs>>

(* --------------------------- state store ------------------------------ *)
\* models/segment.py: the mapped columns of Segment; error_code, which the
\* response schema reports, is not one of them
SegmentColumns == {"order_index", "prompt", "model_params", "status",
                   "s3_asset_url", "error_message", "external_job_id"}

\* a Segment id that no row has used yet
NoSegment == [exists |-> FALSE, order_index |-> 0, prompt |-> NULL,
              model_params |-> NULL, status |-> "pending",
              s3_asset_url |-> NULL, error_message |-> NULL,
              external_job_id |-> NULL, error_code |-> NULL]

\* a Segment id whose row was deleted (ids are uuid4 values, never used again)
DeletedSegment == [NoSegment EXCEPT !.status = "deleted"]

\* Segment(...) as built by api create_segment
NewSegment(oi, prompt, params) ==
    [exists |-> TRUE, order_index |-> oi, prompt |-> prompt,
     model_params |-> params, status |-> "pending",
     s3_asset_url |-> NULL, error_message |-> NULL,
     external_job_id |-> NULL, error_code |-> NULL]

\* Session.commit of one Segment object: the UPDATE carries the mapped columns
\* whose value differs from the value the object was loaded with; current is
\* the row in the database, loaded the row as the session read it, new the
\* object's attributes at commit
Flush(current, loaded, new) ==
    [f \in DOMAIN current |->
        IF f \in SegmentColumns /\ new[f] # loaded[f] THEN new[f] ELSE current[f]]

Existing == {s \in SegIds : segs[s].exists}

JobExists(r) == r \in 1..Len(jobs)

\* all sequences over a set without repetition
RECURSIVE Perms(_)
Perms(S) ==
    IF S = {} THEN {<<>>}
    ELSE UNION {{<<x>> \o p : p \in Perms(S \ {x})} : x \in S}

\* Project.segments: relationship ordered by Segment.order_index only;
\* rows with equal order_index come back in an order the database chooses
ProjectSegments ==
    {p \in Perms(Existing) :
        \A i \in 1..Len(p) : \A j \in 1..Len(p) :
            i < j => segs[p[i]].order_index <= segs[p[j]].order_index}

\* create_render_job: most recent COMPLETED render job of the project, 0 if none
LastCompletedJob ==
    LET done == {r \in 1..Len(jobs) : jobs[r].status = "completed"}
    IN IF done = {} THEN 0 ELSE CHOOSE r \in done : \A q \in done : q <= r

SeqToSet(q) == {q[i] : i \in 1..Len(q)}

\* the regeneration test that selects every segment
NeedsRegenerationAlways(s, last) == TRUE

\* the regeneration test without the comparison against the last completed
\* render job: every render is treated as a first render
NeedsRegenerationFirstRender(s, last) == segs[s].status # "completed"

\* RenderOrchestrator._identify_segments_to_regenerate: the test applied to
\* each current segment; last = 0 when there is no completed render job
NeedsRegeneration(s, last) ==
    IF last = 0
    THEN segs[s].status # "completed"
    ELSE \/ s \notin SeqToSet(jobs[last].segment_ids)
         \/ segs[s].status # "completed"
         \/ segs[s].s3_asset_url = NULL

IdentifySegmentsToRegenerate(current, last) ==
    SelectSeq(current, LAMBDA s : NeedsRegeneration(s, last))

(* ---------------------------- progress cache -------------------------- *)
NoRecord == [present |-> FALSE, segments_total |-> 0, segments_completed |-> 0,
             status |-> NULL]

\* RedisClient.set_render_job_progress
SetRenderJobProgress(rj, r, total, completed, status) ==
    [rj EXCEPT ![r] = [present |-> TRUE, segments_total |-> total,
                       segments_completed |-> completed, status |-> status]]

\* RedisClient.increment_render_job_progress (hincrby creates a missing hash)
IncrementRenderJobProgress(rj, r) ==
    [rj EXCEPT ![r] = [@ EXCEPT !.present = TRUE,
                                !.segments_completed = @ + 1]]

(* ------------------------------- Init --------------------------------- *)
NoSeen == [status |-> NULL, s3_asset_url |-> NULL, error_message |-> NULL]
NoMessage == [segment_id |-> 0, render_job_id |-> 0, prompt |-> NULL,
              model_params |-> NULL, deliveries |-> 0, seen |-> NoSeen]
NoTask == [render_job_id |-> 0, segment_ids |-> <<>>]

\* infrastructure/job_queue.py JobPriority, highest first
JobPriority == <<"high", "normal", "low">>

\* infrastructure/job_queue.py JobStatus
JobStatus == {"pending", "running", "completed", "failed"}

\* ids of the jobs submitted to the queue (job_render_<uuid4>: never reused)
QueueJobIds == 1..MaxQueueJobs

\* a job id the jobs dictionary of the InMemoryQueue does not hold
NoJob == [present |-> FALSE, priority |-> NULL, status |-> NULL,
          created_at |-> 0, started_at |-> 0]

\* InMemoryQueue.__init__; now is the clock datetime.utcnow reads
EmptyQueue == [high_priority_queue |-> <<>>, normal_priority_queue |-> <<>>,
               low_priority_queue |-> <<>>,
               jobs |-> [j \in QueueJobIds |-> NoJob], now |-> 1]

\* external job ids the mock adapter hands out (mock_job_<uuid4>)
MockJobIds == 1..MaxMockJobs

\* adapters/base.py GenerationStatus
GenerationStatus == {"pending", "processing", "completed", "failed"}

\* an external job id that MockAIAdapter._jobs does not hold; task is the
\* position of the _simulate_generation task created for the job
NoMockJob == [present |-> FALSE, status |-> NULL, error |-> NULL,
              video_url |-> NULL, task |-> "none"]

\* a project whose segments were created through the API, one per timeline position
Init ==
    /\ segs = [s \in SegIds |-> NewSegment(s - 1, DefaultPrompt, DefaultParams)]
    /\ jobs = <<>>
    /\ genQueue = {}
    /\ compQueue = <<>>
    /\ redisJobs = [r \in JobIds |-> NoRecord]
    /\ aiw = [pc |-> "idle", msg |-> NoMessage]
    /\ cw = [pc |-> "idle", task |-> NoTask]
    /\ adapterOp = "none"
    /\ apiError = "none"
    /\ orch = {}
    /\ inMemoryQueue = EmptyQueue
    /\ mockJobs = [j \in MockJobIds |-> NoMockJob]

(* ----------------------------- segment API ---------------------------- *)
\* api/segments.py create_segment
CreateSegment(s, oi, prompt, params) ==
    /\ segs[s] = NoSegment
    /\ segs' = [segs EXCEPT ![s] = NewSegment(oi, prompt, params)]
    /\ adapterOp' = "none"
    /\ apiError' = "none"
    /\ UNCHANGED <<jobs, genQueue, compQueue, redisJobs, aiw, cw, orch, inMemoryQueue, mockJobs>>

\* update_segment without the reset of the asset URL
ResetByEditKeepingAsset(row) == [row EXCEPT !.status = "pending"]

\* api/segments.py update_segment: the reset that follows the assignment of
\* a provided prompt or model_params
ResetByEdit(row) == [row EXCEPT !.status = "pending", !.s3_asset_url = NULL]

\* api/segments.py update_segment: the Segment object at commit, for the row
\* as loaded; a field the request does not provide is -1 for order_index,
\* NULL for prompt and for model_params
UpdatedSegment(row, oi, prompt, params) ==
    LET a == IF oi # -1 THEN [row EXCEPT !.order_index = oi] ELSE row
        b == IF prompt # NULL THEN ResetByEdit([a EXCEPT !.prompt = prompt]) ELSE a
    IN IF params # NULL THEN ResetByEdit([b EXCEPT !.model_params = params]) ELSE b

\* api/segments.py update_segment
UpdateSegment(s, oi, prompt, params) ==
    /\ segs[s].exists
    /\ oi # -1 \/ prompt # NULL \/ params # NULL
    /\ segs' = [segs EXCEPT ![s] = UpdatedSegment(@, oi, prompt, params)]
    /\ adapterOp' = "none"
    /\ apiError' = "none"
    /\ UNCHANGED <<jobs, genQueue, compQueue, redisJobs, aiw, cw, orch, inMemoryQueue, mockJobs>>

\* retry_segment that leaves the external job id of the failed attempt
RetrySegmentKeepingJobId(s) ==
    /\ segs[s].exists
    /\ segs[s].status = "failed"
    /\ segs' = [segs EXCEPT ![s] = Flush(@, @, [@ EXCEPT !.status = "pending",
                                                        !.error_message = NULL,
                                                        !.error_code = NULL,
                                                        !.s3_asset_url = NULL])]
    /\ adapterOp' = "none"
    /\ apiError' = "none"
    /\ UNCHANGED <<jobs, genQueue, compQueue, redisJobs, aiw, cw, orch, inMemoryQueue, mockJobs>>

\* api/segments.py retry_segment
RetrySegment(s) ==
    /\ segs[s].exists
    /\ segs[s].status = "failed"
    /\ segs' = [segs EXCEPT ![s] = Flush(@, @, [@ EXCEPT !.status = "pending",
                                                        !.error_message = NULL,
                                                        !.error_code = NULL,
                                                        !.external_job_id = NULL,
                                                        !.s3_asset_url = NULL])]
    /\ adapterOp' = "none"
    /\ apiError' = "none"
    /\ UNCHANGED <<jobs, genQueue, compQueue, redisJobs, aiw, cw, orch, inMemoryQueue, mockJobs>>

\* api/segments.py retry_segment, for a segment that is not FAILED: HTTP 400
RetrySegmentRejected(s) ==
    /\ segs[s].exists
    /\ segs[s].status # "failed"
    /\ apiError' = ErrNotFailed
    /\ adapterOp' = "none"
    /\ UNCHANGED <<segs, jobs, genQueue, compQueue, redisJobs, aiw, cw, orch, inMemoryQueue,
                 mockJobs>>

\* delete_segment that also takes the segment's id out of the render jobs
DeleteSegmentPruning(s) ==
    /\ segs[s].exists
    /\ segs' = [segs EXCEPT ![s] = DeletedSegment]
    /\ jobs' = [r \in 1..Len(jobs) |->
                  [jobs[r] EXCEPT !.segment_ids = SelectSeq(@, LAMBDA x : x # s)]]
    /\ adapterOp' = "none"
    /\ apiError' = "none"
    /\ UNCHANGED <<genQueue, compQueue, redisJobs, aiw, cw, orch, inMemoryQueue, mockJobs>>

\* api/segments.py delete_segment
DeleteSegment(s) ==
    /\ segs[s].exists
    /\ segs' = [segs EXCEPT ![s] = DeletedSegment]
    /\ adapterOp' = "none"
    /\ apiError' = "none"
    /\ UNCHANGED <<jobs, genQueue, compQueue, redisJobs, aiw, cw, orch, inMemoryQueue, mockJobs>>

(* ---------------------------- orchestrator ---------------------------- *)
\* the project ids a render request may name: the project, and an id no
\* project has
ProjectIds == {"P", "unknown"}

\* create_render_job without the test for an empty project
ProjectAlwaysHasSegments == TRUE

\* RenderOrchestrator.create_render_job: the test on project.segments
ProjectHasSegments == Existing # {}

\* a segment_generation message that leaves out the prompt and model_params
GenTaskWithoutContent(s, r) ==
    [segment_id |-> s, render_job_id |-> r, prompt |-> NULL,
     model_params |-> NULL, deliveries |-> 0, seen |-> NoSeen]

\* a segment_generation message; deliveries counts completed deliveries of it,
\* seen is the Segment state its previous delivery left behind
GenTask(s, r) == [segment_id |-> s, render_job_id |-> r,
                  prompt |-> segs[s].prompt, model_params |-> segs[s].model_params,
                  deliveries |-> 0, seen |-> NoSeen]

\* a video_composition message
CompTask(r, ids) == [render_job_id |-> r, segment_ids |-> ids]

\* RenderOrchestrator._dispatch_segment_task applied to every segment of gen
DispatchStatus(gen) ==
    [s \in SegIds |-> IF s \in SeqToSet(gen)
                      THEN [segs[s] EXCEPT !.status = "generating"]
                      ELSE segs[s]]

\* RenderOrchestrator.create_render_job; limit caps the number of render jobs
CreateRenderJob(limit) ==
    /\ Len(jobs) < limit
    /\ ProjectHasSegments
    /\ \E current \in ProjectSegments :
        LET r == Len(jobs) + 1
            gen == IdentifySegmentsToRegenerate(current, LastCompletedJob)
            job == [status |-> "processing",
                    segments_total |-> Len(gen),
                    segments_completed |-> 0,
                    segment_ids |-> current,
                    s3_final_url |-> NULL,
                    error_message |-> NULL]
        IN /\ jobs' = Append(jobs, job)
           /\ redisJobs' = SetRenderJobProgress(redisJobs, r, Len(gen), 0, "processing")
           /\ segs' = DispatchStatus(gen)
           /\ genQueue' = genQueue \cup {GenTask(s, r) : s \in SeqToSet(gen)}
    /\ adapterOp' = "none"
    /\ apiError' = "none"
    /\ UNCHANGED <<compQueue, aiw, cw, orch, inMemoryQueue, mockJobs>>

\* RenderOrchestrator.create_render_job when publish_segment_task raises at
\* the k-th segment of the dispatch loop: the RenderJob row and its cache
\* record are written, the first k segments are committed GENERATING, the
\* tasks of the first k - 1 are published, and start_render answers HTTP 500
CreateRenderJobPartial(limit, k) ==
    /\ Len(jobs) < limit
    /\ ProjectHasSegments
    /\ \E current \in ProjectSegments :
        LET r == Len(jobs) + 1
            gen == IdentifySegmentsToRegenerate(current, LastCompletedJob)
            job == [status |-> "processing",
                    segments_total |-> Len(gen),
                    segments_completed |-> 0,
                    segment_ids |-> current,
                    s3_final_url |-> NULL,
                    error_message |-> NULL]
        IN /\ k \in 1..Len(gen)
           /\ jobs' = Append(jobs, job)
           /\ redisJobs' = SetRenderJobProgress(redisJobs, r, Len(gen), 0, "processing")
           /\ segs' = DispatchStatus(SubSeq(gen, 1, k))
           /\ genQueue' = genQueue \cup {GenTask(s, r) : s \in SeqToSet(SubSeq(gen, 1, k - 1))}
    /\ adapterOp' = "none"
    /\ apiError' = ErrStartRender
    /\ UNCHANGED <<compQueue, aiw, cw, orch, inMemoryQueue, mockJobs>>

\* RenderOrchestrator.create_render_job raising ValueError, which start_render
\* turns into HTTP 400: the project id is unknown, or the project is empty
CreateRenderJobRejected(project) ==
    /\ project = "unknown" \/ ~ProjectHasSegments
    /\ apiError' = IF project = "unknown" THEN ErrProjectNotFound ELSE ErrNoSegments
    /\ adapterOp' = "none"
    /\ UNCHANGED <<segs, jobs, genQueue, compQueue, redisJobs, aiw, cw, orch, inMemoryQueue,
                 mockJobs>>

\* the trigger condition with a strict comparison: composition starts one
\* completion too late
AllSegmentsCompleteStrict(completed, total) == completed > total

\* RenderOrchestrator.handle_segment_completion: the condition under which
\* _trigger_composition is called after the increment
AllSegmentsComplete(completed, total) == completed >= total

\* the counter recomputed, at each completion, as one more than the number of
\* the job's segments that are COMPLETED
CompletedCountRecounted(job) ==
    1 + Cardinality({s \in SeqToSet(job.segment_ids) : segs[s].status = "completed"})

\* RenderOrchestrator.handle_segment_completion: segments_completed += 1
CompletedCount(job) == job.segments_completed + 1

\* RenderOrchestrator.handle_segment_completion (with _trigger_composition)
HandleSegmentCompletion(s, r, url) ==
    /\ JobExists(r) => jobs[r].segments_completed < MaxCompleted
    /\ segs' = IF segs[s].exists
               THEN [segs EXCEPT ![s] = [@ EXCEPT !.status = "completed",
                                                  !.s3_asset_url = url]]
               ELSE segs
    /\ IF JobExists(r)
       THEN LET done == CompletedCount(jobs[r])
                trigger == AllSegmentsComplete(done, jobs[r].segments_total)
            IN /\ jobs' = [jobs EXCEPT ![r] =
                              [@ EXCEPT !.segments_completed = done,
                                        !.status = IF trigger THEN "compositing" ELSE @]]
               /\ redisJobs' =
                     IF trigger
                     THEN SetRenderJobProgress(redisJobs, r, jobs[r].segments_total,
                                               done, "compositing")
                     ELSE IncrementRenderJobProgress(redisJobs, r)
               /\ compQueue' =
                     IF trigger
                     THEN Append(compQueue, CompTask(r, jobs[r].segment_ids))
                     ELSE compQueue
       ELSE UNCHANGED <<jobs, redisJobs, compQueue>>
    /\ adapterOp' = "none"
    /\ apiError' = "none"
    /\ UNCHANGED <<genQueue, aiw, cw, orch, inMemoryQueue, mockJobs>>

\* RenderOrchestrator.handle_composition_completion
HandleCompositionCompletion(r, url) ==
    /\ JobExists(r)
    /\ jobs' = [jobs EXCEPT ![r] = [@ EXCEPT !.status = "completed",
                                             !.s3_final_url = url]]
    /\ redisJobs' = SetRenderJobProgress(redisJobs, r, jobs[r].segments_total,
                                         jobs[r].segments_completed, "completed")
    /\ adapterOp' = "none"
    /\ apiError' = "none"
    /\ UNCHANGED <<segs, genQueue, compQueue, aiw, cw, orch, inMemoryQueue, mockJobs>>

(* -------------------- orchestrator calls, step by step ---------------- *)
\* a call of create_render_job or handle_segment_completion: its position and
\* the locals it holds (rest: the segments still to dispatch; loaded: the
\* segments_completed its session read); a call that returned stays, pc "done"
Call(op, r, s, pc, loaded, rest) ==
    [op |-> op, job |-> r, seg |-> s, pc |-> pc, loaded |-> loaded, rest |-> rest]

CallsOf(op, r) == {c \in orch : c.op = op /\ c.job = r}

\* RenderOrchestrator.create_render_job up to its dispatch loop: the queries,
\* the RenderJob row (PENDING, then PROCESSING) and the cache record
CreateBegin(limit) ==
    /\ Len(jobs) < limit
    /\ ProjectHasSegments
    /\ \E current \in ProjectSegments :
        LET r == Len(jobs) + 1
            gen == IdentifySegmentsToRegenerate(current, LastCompletedJob)
            job == [status |-> "processing",
                    segments_total |-> Len(gen),
                    segments_completed |-> 0,
                    segment_ids |-> current,
                    s3_final_url |-> NULL,
                    error_message |-> NULL]
        IN /\ jobs' = Append(jobs, job)
           /\ redisJobs' = SetRenderJobProgress(redisJobs, r, Len(gen), 0, "processing")
           /\ orch' = orch \cup {Call("create", r, 0,
                                      IF gen = <<>> THEN "done" ELSE "dispatch", 0, gen)}
    /\ adapterOp' = "none"
    /\ apiError' = "none"
    /\ UNCHANGED <<segs, genQueue, compQueue, aiw, cw, inMemoryQueue, mockJobs>>

\* one round of the dispatch loop of create_render_job:
\* _dispatch_segment_task for the next segment of the call
CreateDispatch(c) ==
    /\ c \in orch
    /\ c.op = "create"
    /\ c.pc = "dispatch"
    /\ LET s == Head(c.rest)
       IN /\ segs' = [segs EXCEPT ![s] = [@ EXCEPT !.status = "generating"]]
          /\ genQueue' = genQueue \cup {GenTask(s, c.job)}
          /\ orch' = (orch \ {c}) \cup
                     {[c EXCEPT !.rest = Tail(@),
                                !.pc = IF Tail(c.rest) = <<>> THEN "done" ELSE "dispatch"]}
    /\ adapterOp' = "none"
    /\ apiError' = "none"
    /\ UNCHANGED <<jobs, compQueue, redisJobs, aiw, cw, inMemoryQueue, mockJobs>>

\* a query for the render jobs of the project, whatever their id
RenderJobsOfProject(r) == 1..Len(jobs)

\* handle_segment_completion: db.query(RenderJob).filter(RenderJob.id == id)
RenderJobById(r) == {q \in 1..Len(jobs) : q = r}

\* handle_segment_completion up to the increment: the Segment is committed
\* COMPLETED and the session reads the RenderJob row; called once for each
\* published task
HSCLoad(s, r) ==
    /\ \E m \in genQueue : m.segment_id = s /\ m.render_job_id = r
    /\ \A c \in CallsOf("complete", r) : c.seg # s
    /\ segs' = IF segs[s].exists
               THEN [segs EXCEPT ![s] = [@ EXCEPT !.status = "completed",
                                                  !.s3_asset_url = SegmentUrl(s)]]
               ELSE segs
    /\ orch' = orch \cup
               {IF RenderJobById(r) # {}
                THEN Call("complete", r, s, "loaded", jobs[r].segments_completed, <<>>)
                ELSE Call("complete", r, s, "done", 0, <<>>)}
    /\ adapterOp' = "none"
    /\ apiError' = "none"
    /\ UNCHANGED <<jobs, genQueue, compQueue, redisJobs, aiw, cw, inMemoryQueue,
                   mockJobs>>

\* handle_segment_completion: segments_completed += 1 on the value the session
\* read, committed, then RedisClient.increment_render_job_progress (HINCRBY)
HSCStore(c) ==
    /\ c \in orch
    /\ c.op = "complete"
    /\ c.pc = "loaded"
    /\ jobs' = [q \in 1..Len(jobs) |->
                   IF q \in RenderJobById(c.job)
                   THEN [jobs[q] EXCEPT !.segments_completed = c.loaded + 1]
                   ELSE jobs[q]]
    /\ redisJobs' = IncrementRenderJobProgress(redisJobs, c.job)
    /\ orch' = (orch \ {c}) \cup {[c EXCEPT !.pc = "stored"]}
    /\ adapterOp' = "none"
    /\ apiError' = "none"
    /\ UNCHANGED <<segs, genQueue, compQueue, aiw, cw, inMemoryQueue, mockJobs>>

\* handle_segment_completion after its commit: the test on the row as the
\* session reads it again (commit expires the object), _trigger_composition
HSCCheck(c) ==
    /\ c \in orch
    /\ c.op = "complete"
    /\ c.pc = "stored"
    /\ LET r == c.job
           trigger == AllSegmentsComplete(jobs[r].segments_completed,
                                          jobs[r].segments_total)
       IN /\ jobs' = [jobs EXCEPT ![r] =
                         [@ EXCEPT !.status = IF trigger THEN "compositing" ELSE @]]
          /\ redisJobs' =
                IF trigger
                THEN SetRenderJobProgress(redisJobs, r, jobs[r].segments_total,
                                          jobs[r].segments_completed, "compositing")
                ELSE redisJobs
          /\ compQueue' =
                IF trigger
                THEN Append(compQueue, CompTask(r, jobs[r].segment_ids))
                ELSE compQueue
    /\ orch' = (orch \ {c}) \cup {[c EXCEPT !.pc = "done"]}
    /\ adapterOp' = "none"
    /\ apiError' = "none"
    /\ UNCHANGED <<segs, genQueue, aiw, cw, inMemoryQueue, mockJobs>>

(* ------------------------------ AI worker ----------------------------- *)
\* the fields of a Segment row that a handled generation message leaves behind
SegmentOutcome(row) == [status |-> row.status, s3_asset_url |-> row.s3_asset_url,
                        error_message |-> row.error_message]

\* the external id adapter.initiate_generation returns: a fresh one per call,
\* that is per delivery of a message
ExternalJobId(m) ==
    "ext-" \o ToString(m.segment_id) \o "-" \o ToString(m.render_job_id)
           \o "-" \o ToString(m.deliveries)

\* AIWorker._handle_segment_failure
HandleSegmentFailure(s, msg, code) ==
    IF segs[s].exists
    THEN [segs EXCEPT ![s] = Flush(@, @, [@ EXCEPT !.status = "failed",
                                                   !.error_message = msg,
                                                   !.error_code = code])]
    ELSE segs

\* RabbitMQClient.consume_messages, after the callback returned: basic_ack, or
\* the connection is lost before the ack and the broker requeues the message
AckOrRequeue(m, acked, after) ==
    /\ ~acked => m.deliveries < MaxRedeliver
    /\ genQueue' = IF acked THEN genQueue
                   ELSE genQueue \cup {[m EXCEPT !.deliveries = @ + 1,
                                                 !.seen = SegmentOutcome(after)]}

\* VideoModelFactory._adapters: the registered model names
Adapters == {"runway-gen3", "runway", "stability-ai", "stability", "mock-ai", "mock"}

\* VideoModelFactory.create for the model a task's model_params names: an
\* adapter ("ok"), or ValueError for a name that is not registered
Create(model) == IF model \in Adapters THEN "ok" ELSE "ValueError"

\* how adapter.initiate_generation ends: an external job id, or AdapterError
InitiateOutcomes == {"ok", "adapter_error"}

\* how the HTTP request of one attempt of ComfyUIAdapter.initiate_generation
\* ends: a response with a prompt_id, or an httpx exception
HttpResults == {"ok", "httpx.ConnectError", "httpx.TimeoutException",
                "httpx.HTTPStatusError"}

\* what one run of the body of ComfyUIAdapter.initiate_generation returns or
\* raises for the given end of its HTTP request: the httpx exceptions are
\* caught in the body and replaced; ComfyUITimeoutError is constructed with a
\* keyword it does not accept, which raises TypeError
Raised(h) ==
    CASE h = "ok" -> "ok"
      [] h = "httpx.ConnectError" -> "COMFYUI_CONNECTION_ERROR"
      [] h = "httpx.TimeoutException" -> "TypeError"
      [] h = "httpx.HTTPStatusError" -> "COMFYUI_GENERATION_ERROR"

\* the retry condition of the decorator of initiate_generation:
\* retry_if_exception_type((httpx.TimeoutException, httpx.ConnectError)),
\* applied to what the body raised
RetryIfExceptionType(x) == x \in {"httpx.TimeoutException", "httpx.ConnectError"}

\* the runs of the HTTP service: how the request of each attempt would end
HttpRuns == [1..StopAfterAttempt -> HttpResults]

\* ComfyUIAdapter.initiate_generation under its retry decorator, from
\* attempt n on: "ok" or what is raised to the caller
RECURSIVE InitiateGeneration(_, _)
InitiateGeneration(run, n) ==
    LET x == Raised(run[n])
    IN IF x = "ok" THEN "ok"
       ELSE IF RetryIfExceptionType(x) /\ n < StopAfterAttempt
            THEN InitiateGeneration(run, n + 1)
            ELSE x

\* how the rest of process_segment_task ends: the result is completed and
\* uploaded, the result is failed, _poll_for_completion times out, or another
\* exception is raised (polling, download, upload)
PollResults == {"completed", "failed", "timeout", "error"}

\* the video_url of a completed result: the mock adapter's local file, the
\* address the worker takes for a mock one, a provider's download address
MockVideoUrl == "file:///tmp/mock_videos/mock_video.mp4"
MockCdnUrl == "https://mock-cdn.example.com/videos/mock_video.mp4"
ProviderUrl == "https://cdn.provider.example/videos/video.mp4"
VideoUrls == {MockVideoUrl, MockCdnUrl, ProviderUrl}

\* str.startswith
StartsWith(str, prefix) ==
    Len(str) >= Len(prefix) /\ SubSeq(str, 1, Len(prefix)) = prefix

\* httpx.AsyncClient.get followed by raise_for_status, for a file the server
\* has: only the http and https schemes have a transport
HttpxGet(url) ==
    IF StartsWith(url, "http://") \/ StartsWith(url, "https://")
    THEN "ok" ELSE "httpx.UnsupportedProtocol"

\* AIWorker._upload_to_s3: "ok" (the file is stored under the segment's key
\* and its URL returned) or the exception raised
UploadToS3(video_url) ==
    IF StartsWith(video_url, "https://mock-cdn") THEN "ok" ELSE HttpxGet(video_url)

\* how one call of adapter.get_result ends inside the adapter: a result with
\* the given status, or an httpx exception of its HTTP request
GetResults == {"processing", "completed", "failed",
               "httpx.ConnectError", "httpx.TimeoutException"}

\* ComfyUIAdapter.get_result: the status of the result returned, or the
\* AdapterError raised in place of the httpx exception
GetResult(h) ==
    CASE h = "httpx.ConnectError" -> "COMFYUI_CONNECTION_ERROR"
      [] h = "httpx.TimeoutException" -> "COMFYUI_TIMEOUT"
      [] OTHER -> h

\* the runs of the generation service: how each poll attempt would end
PollRuns == [1..MaxAttempts -> GetResults]

\* AIWorker._poll_for_completion from attempt n on: the status of the terminal
\* result returned, the exception get_result raised, or TimeoutError
RECURSIVE PollForCompletion(_, _)
PollForCompletion(run, n) ==
    LET x == GetResult(run[n])
    IN IF x \in {"completed", "failed"} \/ x \in AdapterErrors THEN x
       ELSE IF n < MaxAttempts THEN PollForCompletion(run, n + 1)
       ELSE "TimeoutError"

\* AIWorker.process_segment_task after _poll_for_completion: the branch taken
\* for what polling returned or raised and for the video_url of the result
ProcessResult(polled, video_url) ==
    CASE polled = "completed" ->
            IF UploadToS3(video_url) = "ok" THEN "completed" ELSE "error"
      [] polled = "failed" -> "failed"
      [] polled = "TimeoutError" -> "timeout"
      [] OTHER -> polled

\* AIWorker.process_segment_task, from message receipt to the end of
\* adapter.initiate_generation (returns on AdapterError, else stores the
\* external job id and goes on to poll); with outcome "ValueError" the
\* factory raised and no adapter was created
AIInitiate(m, outcome, acked) ==
    /\ aiw.pc = "idle"
    /\ m \in genQueue
    /\ adapterOp' = IF outcome = "ValueError" THEN "none" ELSE "initiate"
    /\ apiError' = "none"
    /\ LET s == m.segment_id
       IN IF outcome = "ok"
          THEN /\ segs' = IF segs[s].exists
                          THEN [segs EXCEPT ![s] =
                                  [@ EXCEPT !.external_job_id = ExternalJobId(m)]]
                          ELSE segs
               /\ aiw' = [pc |-> "polling", msg |-> m]
               /\ genQueue' = genQueue \ {m}
               /\ acked
          ELSE /\ segs' = IF outcome \in AdapterErrors
                          THEN HandleSegmentFailure(s, ErrorMessage(outcome),
                                                    ErrorCode(outcome))
                          ELSE HandleSegmentFailure(s, ErrInternal, "INTERNAL_ERROR")
               /\ aiw' = aiw
               /\ ~acked => m.deliveries < MaxRedeliver
               /\ genQueue' = (genQueue \ {m}) \cup
                     (IF acked THEN {}
                      ELSE {[m EXCEPT !.deliveries = @ + 1,
                                      !.seen = SegmentOutcome(segs'[s])]})
    /\ UNCHANGED <<jobs, compQueue, redisJobs, cw, orch, inMemoryQueue, mockJobs>>

\* AIWorker.process_segment_task, from _poll_for_completion to the return
AIPoll(result, acked) ==
    /\ aiw.pc = "polling"
    /\ LET s == aiw.msg.segment_id
           r == aiw.msg.render_job_id
       IN /\ IF result = "completed"
             THEN /\ segs' = IF segs[s].exists
                             THEN [segs EXCEPT ![s] =
                                     [@ EXCEPT !.status = "completed",
                                               !.s3_asset_url = SegmentUrl(s)]]
                             ELSE segs
                  /\ redisJobs' = IncrementRenderJobProgress(redisJobs, r)
             ELSE /\ segs' = HandleSegmentFailure(s,
                                 IF result \in AdapterErrors THEN ErrorMessage(result)
                                 ELSE IF result = "timeout" THEN ErrTimeout
                                 ELSE IF result = "error" THEN ErrInternal
                                 ELSE ErrGeneration,
                                 IF result \in AdapterErrors THEN ErrorCode(result)
                                 ELSE IF result = "timeout" THEN "COMFYUI_TIMEOUT"
                                 ELSE IF result = "error" THEN "INTERNAL_ERROR"
                                 ELSE NULL)
                  /\ redisJobs' = redisJobs
          /\ AckOrRequeue(aiw.msg, acked, segs'[s])
    /\ aiw' = [pc |-> "idle", msg |-> NoMessage]
    /\ adapterOp' = "poll"
    /\ apiError' = "none"
    /\ UNCHANGED <<jobs, compQueue, cw, orch, inMemoryQueue, mockJobs>>

\* RabbitMQClient.consume_messages, the callback raised: basic_nack of the
\* delivery; the broker puts a requeued message back and drops any other
\* (the queues are declared without a dead-letter exchange)
BasicNack(q, m, requeue) ==
    IF requeue THEN (q \ {m}) \cup {[m EXCEPT !.deliveries = @ + 1]} ELSE q \ {m}

\* the stores a handler may find unreachable: the progress cache, the database
Stores == {"redis", "db"}

\* AIWorker.process_segment_task raising into the consumer callback: a store
\* is unreachable for the whole handling. With the cache down the first
\* statement raises, the except branch calls _handle_segment_failure, which
\* commits FAILED and raises at its cache update; with the database down the
\* generation is initiated, the session raises, and _handle_segment_failure
\* raises at its own session. consume_messages then rejects the delivery
AIRaise(m, down) ==
    /\ aiw.pc = "idle"
    /\ m \in genQueue
    /\ segs' = IF down = "redis"
               THEN HandleSegmentFailure(m.segment_id, ErrInternal, "INTERNAL_ERROR")
               ELSE segs
    /\ genQueue' = BasicNack(genQueue, m, FALSE)
    /\ adapterOp' = IF down = "redis" THEN "none" ELSE "initiate"
    /\ apiError' = "none"
    /\ UNCHANGED <<jobs, compQueue, redisJobs, aiw, cw, orch, inMemoryQueue, mockJobs>>

\* AIWorker.process_segment_task, success path up to the SELECT of the Segment
\* row: the result is completed, the video is uploaded, the session loads the
\* row
AIPollLoad ==
    /\ aiw.pc = "polling"
    /\ aiw' = [pc |-> "storing", msg |-> aiw.msg,
               loaded |-> segs[aiw.msg.segment_id]]
    /\ adapterOp' = "poll"
    /\ apiError' = "none"
    /\ UNCHANGED <<segs, jobs, genQueue, compQueue, redisJobs, cw, orch, inMemoryQueue,
                 mockJobs>>

\* AIWorker.process_segment_task, success path from the assignments to the
\* loaded Segment object to the return: commit, progress increment, ack
AIPollStore(acked) ==
    /\ aiw.pc = "storing"
    /\ LET s == aiw.msg.segment_id
           r == aiw.msg.render_job_id
           new == [aiw.loaded EXCEPT !.status = "completed",
                                     !.s3_asset_url = SegmentUrl(s)]
       IN /\ segs' = IF aiw.loaded.exists /\ segs[s].exists
                      THEN [segs EXCEPT ![s] = Flush(@, aiw.loaded, new)]
                      ELSE segs
          /\ redisJobs' = IncrementRenderJobProgress(redisJobs, r)
          /\ AckOrRequeue(aiw.msg, acked, segs'[s])
    /\ aiw' = [pc |-> "idle", msg |-> NoMessage]
    /\ adapterOp' = "none"
    /\ apiError' = "none"
    /\ UNCHANGED <<jobs, compQueue, cw, orch, inMemoryQueue, mockJobs>>

(* -------------------------- composition worker ------------------------ *)
\* whether the storage client has the method generate_composition_key that
\* process_composition_task calls (S3Client and LocalStorageClient define
\* generate_final_video_key only)
StorageHasCompositionKey == FALSE

\* CompositionWorker.process_composition_task, up to the first commit
CompStart ==
    /\ cw.pc = "idle"
    /\ compQueue # <<>>
    /\ LET t == Head(compQueue)
           r == t.render_job_id
           n == Len(t.segment_ids)
       IN /\ jobs' = [jobs EXCEPT ![r] = [@ EXCEPT !.status = "compositing"]]
          /\ redisJobs' = SetRenderJobProgress(redisJobs, r, n, n, "compositing")
          /\ cw' = [pc |-> "composing", task |-> t]
    /\ compQueue' = Tail(compQueue)
    /\ adapterOp' = "none"
    /\ apiError' = "none"
    /\ UNCHANGED <<segs, genQueue, aiw, orch, inMemoryQueue, mockJobs>>

\* the sets of segments whose asset the storage can deliver while a
\* composition task is handled
Fetches == SUBSET SegIds

\* the fetched ids in the reverse of the order of the message
DownloadSegmentsReversed(ids, fetched) ==
    LET f == SelectSeq(ids, LAMBDA s : /\ segs[s].exists
                                       /\ segs[s].s3_asset_url # NULL
                                       /\ s \in fetched)
    IN [i \in 1..Len(f) |-> f[Len(f) + 1 - i]]

\* CompositionWorker._download_segments: the ids whose file is fetched, in
\* the order of the message; an id is skipped when its Segment row is missing
\* or has no asset URL, and when its file is missing or its download fails
DownloadSegments(ids, fetched) ==
    SelectSeq(ids, LAMBDA s : /\ segs[s].exists
                              /\ segs[s].s3_asset_url # NULL
                              /\ s \in fetched)

\* whether the name s3_url, which process_composition_task logs after the
\* final commit, is defined
LogNameDefined == FALSE

\* the call of _cleanup_files is reached whenever the video was composed
CleanupReachedOnSuccess(files, ffmpegOk) == files # <<>> /\ ffmpegOk

\* CompositionWorker.process_composition_task reaches its call of
\* _cleanup_files: nothing before it raised
CleanupReached(files, ffmpegOk) ==
    /\ files # <<>>
    /\ ffmpegOk
    /\ StorageHasCompositionKey
    /\ LogNameDefined

\* the temp files the handling of a composition task creates: a copy per
\* segment whose asset is downloaded (made before the download, kept when it
\* fails), and in _compose_video the concat manifest and the output file; a
\* file:// asset (inPlace) is used where it is
TempFilesCreated(ids, fetched, inPlace, ffmpegOk) ==
    {[kind |-> "copy", segment |-> s] :
        s \in {x \in SeqToSet(ids) : /\ segs[x].exists
                                     /\ segs[x].s3_asset_url # NULL
                                     /\ x \notin inPlace}}
    \cup (IF DownloadSegments(ids, fetched) # <<>>
          THEN {[kind |-> "manifest", segment |-> 0], [kind |-> "output", segment |-> 0]}
          ELSE {})

\* the paths _cleanup_files is called with: segment_files and the output
CleanedUp(ids, fetched, ffmpegOk) ==
    IF CleanupReached(DownloadSegments(ids, fetched), ffmpegOk)
    THEN SeqToSet(DownloadSegments(ids, fetched)) ELSE {}

\* the temp files deleted during the handling: the manifest in the finally
\* clause of _compose_video, the fetched copies and the output in
\* _cleanup_files
TempFilesDeleted(ids, fetched, inPlace, ffmpegOk) ==
    (IF DownloadSegments(ids, fetched) # <<>>
     THEN {[kind |-> "manifest", segment |-> 0]} ELSE {})
    \cup {[kind |-> "copy", segment |-> s] : s \in CleanedUp(ids, fetched, ffmpegOk) \ inPlace}
    \cup (IF CleanupReached(DownloadSegments(ids, fetched), ffmpegOk)
          THEN {[kind |-> "output", segment |-> 0]} ELSE {})

\* the temp files that exist when the handling has returned
TempFilesLeft(ids, fetched, inPlace, ffmpegOk) ==
    TempFilesCreated(ids, fetched, inPlace, ffmpegOk)
       \ TempFilesDeleted(ids, fetched, inPlace, ffmpegOk)

\* the segments whose stored asset the handling deletes: _cleanup_files
\* unlinks every path of segment_files, and the path of a file:// asset is
\* the asset itself
AssetsDeleted(ids, fetched, inPlace, ffmpegOk) ==
    CleanedUp(ids, fetched, ffmpegOk) \cap inPlace

\* CompositionWorker.process_composition_task, from _download_segments on:
\* every path ends in the except branch, and the message is acknowledged
CompFinish(ffmpegOk, fetched) ==
    /\ cw.pc = "composing"
    /\ LET t == cw.task
           r == t.render_job_id
           n == Len(t.segment_ids)
           files == DownloadSegments(t.segment_ids, fetched)
           uploaded == files # <<>> /\ ffmpegOk /\ StorageHasCompositionKey
           err == IF files = <<>> THEN ErrNoFiles
                  ELSE IF ~ffmpegOk THEN ErrFfmpeg
                  ELSE IF ~StorageHasCompositionKey THEN ErrNoKeyMethod
                  ELSE ErrLogName
       IN /\ jobs' = [jobs EXCEPT ![r] =
                        [@ EXCEPT !.status = "failed",
                                  !.error_message = err,
                                  !.s3_final_url = IF uploaded THEN FinalUrl(r) ELSE @]]
          /\ redisJobs' = SetRenderJobProgress(redisJobs, r, n, n, "failed")
    /\ cw' = [pc |-> "idle", task |-> NoTask]
    /\ adapterOp' = "none"
    /\ apiError' = "none"
    /\ UNCHANGED <<segs, genQueue, compQueue, aiw, orch, inMemoryQueue, mockJobs>>

\* CompositionWorker.process_composition_task raising into the consumer
\* callback: the database is unreachable, the first session raises and so does
\* the session of the except branch. consume_messages then rejects the
\* delivery: basic_nack(requeue=False)
CompRaise ==
    /\ cw.pc = "idle"
    /\ compQueue # <<>>
    /\ compQueue' = Tail(compQueue)
    /\ adapterOp' = "none"
    /\ apiError' = "none"
    /\ UNCHANGED <<segs, jobs, genQueue, redisJobs, aiw, cw, orch, inMemoryQueue, mockJobs>>

(* --------------------------- in-memory job queue ---------------------- *)
\* the deque of the InMemoryQueue that holds the jobs of priority p
Deque(q, p) ==
    CASE p = "high" -> q.high_priority_queue
      [] p = "normal" -> q.normal_priority_queue
      [] p = "low" -> q.low_priority_queue

\* the InMemoryQueue with the deque of priority p replaced by d
WithDeque(q, p, d) ==
    CASE p = "high" -> [q EXCEPT !.high_priority_queue = d]
      [] p = "normal" -> [q EXCEPT !.normal_priority_queue = d]
      [] p = "low" -> [q EXCEPT !.low_priority_queue = d]

\* InMemoryQueue._has_jobs
HasJobs(q) ==
    \/ q.high_priority_queue # <<>>
    \/ q.normal_priority_queue # <<>>
    \/ q.low_priority_queue # <<>>

\* a dequeue that serves the lowest priority first
LowestPriorityOf(q) ==
    IF q.low_priority_queue # <<>> THEN "low"
    ELSE IF q.normal_priority_queue # <<>> THEN "normal"
    ELSE "high"

\* InMemoryQueue.dequeue: the deque the if/elif chain pops, for a queue that
\* has jobs
PriorityOf(q) ==
    IF q.high_priority_queue # <<>> THEN "high"
    ELSE IF q.normal_priority_queue # <<>> THEN "normal"
    ELSE "low"

\* JobQueue.submit with InMemoryQueue.enqueue: a Job with a new id, PENDING,
\* is stored and its id appended to the deque of its priority
Enqueue(j, p) ==
    /\ j \in QueueJobIds
    /\ ~inMemoryQueue.jobs[j].present
    /\ \A i \in 1..(j - 1) : inMemoryQueue.jobs[i].present
    /\ LET job == [present |-> TRUE, priority |-> p, status |-> "pending",
                   created_at |-> inMemoryQueue.now, started_at |-> 0]
           q == [inMemoryQueue EXCEPT !.jobs[j] = job, !.now = @ + 1]
       IN inMemoryQueue' = WithDeque(q, p, Append(Deque(q, p), j))
    /\ UNCHANGED <<segs, jobs, genQueue, compQueue, redisJobs, aiw, cw, adapterOp,
                   apiError, orch, mockJobs>>

\* InMemoryQueue.dequeue once the queue has jobs (until then it waits): popleft
\* of the first non-empty deque, the job becomes RUNNING and is returned
Dequeue ==
    /\ HasJobs(inMemoryQueue)
    /\ LET p == PriorityOf(inMemoryQueue)
           j == Head(Deque(inMemoryQueue, p))
           q == WithDeque(inMemoryQueue, p, Tail(Deque(inMemoryQueue, p)))
       IN inMemoryQueue' =
             IF q.jobs[j].present
             THEN [q EXCEPT !.jobs[j].status = "running",
                            !.jobs[j].started_at = q.now,
                            !.now = @ + 1]
             ELSE [q EXCEPT !.now = @ + 1]
    /\ UNCHANGED <<segs, jobs, genQueue, compQueue, redisJobs, aiw, cw, adapterOp,
                   apiError, orch, mockJobs>>

\* JobQueue.complete and JobQueue.fail, which the render worker calls for the
\* job it pulled
Finish(j, status) ==
    /\ j \in QueueJobIds
    /\ inMemoryQueue.jobs[j].present
    /\ inMemoryQueue.jobs[j].status = "running"
    /\ inMemoryQueue' = [inMemoryQueue EXCEPT !.jobs[j].status = status,
                                              !.now = @ + 1]
    /\ UNCHANGED <<segs, jobs, genQueue, compQueue, redisJobs, aiw, cw, adapterOp,
                   apiError, orch, mockJobs>>

(* ----------------------------- mock adapter --------------------------- *)
\* MockAIAdapter.initiate_generation: a job with a new id, PROCESSING, and the
\* _simulate_generation task created for it, which starts by sleeping
MockInitiate(j) ==
    /\ j \in MockJobIds
    /\ ~mockJobs[j].present
    /\ \A i \in 1..(j - 1) : mockJobs[i].present
    /\ mockJobs' = [mockJobs EXCEPT ![j] =
                       [present |-> TRUE, status |-> "processing", error |-> NULL,
                        video_url |-> NULL, task |-> "sleeping"]]
    /\ UNCHANGED <<segs, jobs, genQueue, compQueue, redisJobs, aiw, cw, adapterOp,
                   apiError, orch, inMemoryQueue>>

\* MockAIAdapter._simulate_generation after its sleep: the job is FAILED when
\* the draw falls under fail_rate, else the test video is being generated
MockWake(j, fails) ==
    /\ j \in MockJobIds
    /\ mockJobs[j].task = "sleeping"
    /\ mockJobs' = [mockJobs EXCEPT ![j] =
                       IF fails
                       THEN [@ EXCEPT !.status = "failed", !.error = ErrSimulated,
                                      !.task = "done"]
                       ELSE [@ EXCEPT !.task = "generating"]]
    /\ UNCHANGED <<segs, jobs, genQueue, compQueue, redisJobs, aiw, cw, adapterOp,
                   apiError, orch, inMemoryQueue>>

\* MockAIAdapter._simulate_generation when _generate_test_video has returned
\* or raised: the job is COMPLETED with its video_url, or FAILED
MockGenerated(j, ok) ==
    /\ j \in MockJobIds
    /\ mockJobs[j].task = "generating"
    /\ mockJobs' = [mockJobs EXCEPT ![j] =
                       IF ok
                       THEN [@ EXCEPT !.status = "completed",
                                      !.video_url = MockVideoUrl, !.task = "done"]
                       ELSE [@ EXCEPT !.status = "failed", !.error = ErrTestVideo,
                                      !.task = "done"]]
    /\ UNCHANGED <<segs, jobs, genQueue, compQueue, redisJobs, aiw, cw, adapterOp,
                   apiError, orch, inMemoryQueue>>

\* MockAIAdapter.cancel_generation for a job the adapter holds (returns True)
MockCancel(j) ==
    /\ j \in MockJobIds
    /\ mockJobs[j].present
    /\ mockJobs' = [mockJobs EXCEPT ![j] =
                       [@ EXCEPT !.status = "failed", !.error = ErrCancelled]]
    /\ UNCHANGED <<segs, jobs, genQueue, compQueue, redisJobs, aiw, cw, adapterOp,
                   apiError, orch, inMemoryQueue>>

(* --------------------------- specifications --------------------------- *)
\* the orchestrator's handlers and the composition worker; a composition is
\* reported as completed only for a render job that is being composed
NextOrchestrator ==
    \/ CreateRenderJob(OrchestratorJobs)
    \/ \E s \in SegIds, r \in JobIds : HandleSegmentCompletion(s, r, SegmentUrl(s))
    \/ \E r \in JobIds :
          /\ JobExists(r)
          /\ jobs[r].status = "compositing"
          /\ HandleCompositionCompletion(r, FinalUrl(r))
    \/ CompStart
    \/ \E f \in BOOLEAN, d \in Fetches : CompFinish(f, d)

SpecOrchestrator == Init /\ [][NextOrchestrator]_vars

\* render requests, the AI worker and the segment API
NextWorker ==
    \/ \E s \in SegIds : UpdateSegment(s, -1, DefaultPrompt, NULL)
    \/ \E s \in SegIds : RetrySegment(s)
    \/ CreateRenderJob(WorkerJobs)
    \/ \E m \in genQueue, o \in InitiateOutcomes, a \in BOOLEAN : AIInitiate(m, o, a)
    \/ \E o \in PollResults, a \in BOOLEAN : AIPoll(o, a)

SpecWorker == Init /\ [][NextWorker]_vars

\* render requests over a project that is being edited: segments are added
\* and edited, completions and finished compositions are reported, a
\* completion may carry no asset URL
NextRegen ==
    \/ \E s \in SegIds, oi \in Orders :
          CreateSegment(s, oi, DefaultPrompt, DefaultParams)
    \/ \E s \in SegIds : UpdateSegment(s, -1, DefaultPrompt, NULL)
    \/ \E s \in SegIds, r \in JobIds :
          \E u \in {SegmentUrl(s), NULL} : HandleSegmentCompletion(s, r, u)
    \/ \E r \in JobIds :
          /\ JobExists(r)
          /\ jobs[r].status = "compositing"
          /\ HandleCompositionCompletion(r, FinalUrl(r))
    \/ CreateRenderJob(MaxJobs)

InitRegen ==
    /\ segs = [s \in SegIds |-> NoSegment]
    /\ jobs = <<>>
    /\ genQueue = {}
    /\ compQueue = <<>>
    /\ redisJobs = [r \in JobIds |-> NoRecord]
    /\ aiw = [pc |-> "idle", msg |-> NoMessage]
    /\ cw = [pc |-> "idle", task |-> NoTask]
    /\ adapterOp = "none"
    /\ apiError = "none"
    /\ orch = {}
    /\ inMemoryQueue = EmptyQueue
    /\ mockJobs = [j \in MockJobIds |-> NoMockJob]

SpecRegen == InitRegen /\ [][NextRegen]_vars

\* the fields of an update request: each is absent (-1, NULL) or carries a
\* value; prompt and model_params, when present, differ from the values
\* segments are created with
EditOrders == Orders \cup {-1}
EditPrompts == (Prompts \ {DefaultPrompt}) \cup {NULL}
EditParams == (ModelParams \ {DefaultParams}) \cup {NULL}

\* the segment and render API over a project that is edited, with requests
\* that are rejected, and the AI worker
NextEdit ==
    \/ \E s \in SegIds, oi \in Orders :
          CreateSegment(s, oi, DefaultPrompt, DefaultParams)
    \/ \E s \in SegIds, oi \in EditOrders, p \in EditPrompts, mp \in EditParams :
          UpdateSegment(s, oi, p, mp)
    \/ \E s \in SegIds : DeleteSegment(s)
    \/ \E s \in SegIds : RetrySegment(s)
    \/ \E s \in SegIds : RetrySegmentRejected(s)
    \/ CreateRenderJob(EditJobs)
    \/ \E project \in ProjectIds : CreateRenderJobRejected(project)
    \/ \E m \in genQueue, o \in InitiateOutcomes : AIInitiate(m, o, TRUE)
    \/ \E o \in {"completed", "failed"} : AIPoll(o, TRUE)

SpecEdit == InitRegen /\ [][NextEdit]_vars

\* render requests over segments whose prompt and model_params are edited,
\* with an AI worker whose generations succeed
NextDispatch ==
    \/ \E s \in SegIds, p \in Prompts \cup {NULL}, mp \in ModelParams \cup {NULL} :
          UpdateSegment(s, -1, p, mp)
    \/ CreateRenderJob(MaxJobs)
    \/ \E m \in genQueue : AIInitiate(m, "ok", TRUE)
    \/ AIPoll("completed", TRUE)

SpecDispatch == Init /\ [][NextDispatch]_vars

\* the AI worker with its database sessions interleaved with the segment
\* API: between the worker's SELECT of a Segment row and its commit, edits and
\* retries of the segment are committed
NextRace ==
    \/ CreateRenderJob(RaceJobs)
    \/ \E s \in SegIds : UpdateSegment(s, -1, DefaultPrompt, NULL)
    \/ \E s \in SegIds : RetrySegment(s)
    \/ \E m \in genQueue, o \in InitiateOutcomes : AIInitiate(m, o, TRUE)
    \/ AIPollLoad
    \/ \E a \in BOOLEAN : AIPollStore(a)

SpecRace == Init /\ [][NextRace]_vars

\* render jobs over a timeline that keeps changing: segments are added,
\* edited, moved and deleted while completions of segments being generated
\* are reported and compositions run, and further renders are requested
NextTimeline ==
    \/ \E s \in SegIds, oi \in Orders :
          CreateSegment(s, oi, DefaultPrompt, DefaultParams)
    \/ \E s \in SegIds, oi \in EditOrders, p \in {DefaultPrompt, NULL} :
          UpdateSegment(s, oi, p, NULL)
    \/ \E s \in SegIds : DeleteSegment(s)
    \/ CreateRenderJob(MaxJobs)
    \/ \E s \in SegIds, r \in JobIds :
          /\ JobExists(r)
          /\ segs[s].status = "generating"
          /\ HandleSegmentCompletion(s, r, SegmentUrl(s))
    \/ \E r \in JobIds :
          /\ JobExists(r)
          /\ jobs[r].status = "compositing"
          /\ HandleCompositionCompletion(r, FinalUrl(r))
    \/ CompStart
    \/ \E f \in BOOLEAN, d \in Fetches : CompFinish(f, d)

SpecTimeline == InitRegen /\ [][NextTimeline]_vars

\* the AI worker generating through the ComfyUI adapter, whose HTTP service
\* fails in every way at every attempt; failed segments are retried by the
\* user
NextComfyUI ==
    \/ CreateRenderJob(WorkerJobs)
    \/ \E s \in SegIds : RetrySegment(s)
    \/ \E m \in genQueue, run \in HttpRuns :
          AIInitiate(m, InitiateGeneration(run, 1), TRUE)
    \/ \E o \in PollResults, a \in BOOLEAN : AIPoll(o, a)

SpecComfyUI == Init /\ [][NextComfyUI]_vars

\* the AI worker polling a generation service that answers each attempt in
\* every way, for results that carry each kind of video_url; failed segments
\* are retried by the user
NextPoll ==
    \/ CreateRenderJob(WorkerJobs)
    \/ \E s \in SegIds : RetrySegment(s)
    \/ \E m \in genQueue : AIInitiate(m, "ok", TRUE)
    \/ \E run \in PollRuns, u \in VideoUrls, a \in BOOLEAN :
          AIPoll(ProcessResult(PollForCompletion(run, 1), u), a)

SpecPoll == Init /\ [][NextPoll]_vars

\* render requests whose dispatch fails at some segment, the AI worker, the
\* completions of stored segments reported to the orchestrator, and the
\* composition worker
NextPartial ==
    \/ \E k \in 1..NumSegments : CreateRenderJobPartial(MaxJobs, k)
    \/ \E m \in genQueue, o \in InitiateOutcomes : AIInitiate(m, o, TRUE)
    \/ \E o \in {"completed", "failed"} : AIPoll(o, TRUE)
    \/ \E s \in SegIds, r \in JobIds :
          /\ JobExists(r)
          /\ jobs[r].status = "processing"
          /\ segs[s].status = "completed"
          /\ HandleSegmentCompletion(s, r, SegmentUrl(s))
    \/ CompStart
    \/ \E f \in BOOLEAN, d \in Fetches : CompFinish(f, d)

SpecPartial == Init /\ [][NextPartial]_vars

\* generation tasks for segments whose model_params name a registered model
\* or one that is not registered
NextFactory ==
    \/ \E s \in SegIds, mp \in {"mock-ai", "comfyui"} : UpdateSegment(s, -1, NULL, mp)
    \/ \E s \in SegIds : RetrySegment(s)
    \/ CreateRenderJob(WorkerJobs)
    \/ \E m \in genQueue, o \in InitiateOutcomes, a \in BOOLEAN :
          AIInitiate(m, IF Create(m.model_params) = "ok" THEN o ELSE "ValueError", a)
    \/ \E o \in PollResults, a \in BOOLEAN : AIPoll(o, a)

SpecFactory == Init /\ [][NextFactory]_vars

\* the two consumers with stores that may be unreachable while a message is
\* handled; completions of segments being generated are reported
NextBroker ==
    \/ CreateRenderJob(WorkerJobs)
    \/ \E s \in SegIds : RetrySegment(s)
    \/ \E m \in genQueue, o \in InitiateOutcomes, a \in BOOLEAN : AIInitiate(m, o, a)
    \/ \E o \in PollResults, a \in BOOLEAN : AIPoll(o, a)
    \/ \E m \in genQueue, d \in Stores : AIRaise(m, d)
    \/ \E s \in SegIds, r \in JobIds :
          /\ JobExists(r)
          /\ segs[s].status = "generating"
          /\ HandleSegmentCompletion(s, r, SegmentUrl(s))
    \/ CompStart
    \/ \E f \in BOOLEAN, d \in Fetches : CompFinish(f, d)
    \/ CompRaise

SpecBroker == Init /\ [][NextBroker]_vars

\* re-renders: segments are edited between render requests, the AI worker
\* handles the generation tasks, which succeed or fail, and the completions of
\* stored segments and the finished compositions are reported
NextRerender ==
    \/ \E s \in SegIds : UpdateSegment(s, -1, DefaultPrompt, NULL)
    \/ CreateRenderJob(MaxJobs)
    \/ \E m \in genQueue, o \in InitiateOutcomes : AIInitiate(m, o, TRUE)
    \/ \E o \in {"completed", "failed"} : AIPoll(o, TRUE)
    \/ \E s \in SegIds, r \in JobIds :
          /\ JobExists(r)
          /\ jobs[r].status = "processing"
          /\ segs[s].status = "completed"
          /\ HandleSegmentCompletion(s, r, SegmentUrl(s))
    \/ \E r \in JobIds :
          /\ JobExists(r)
          /\ jobs[r].status = "compositing"
          /\ HandleCompositionCompletion(r, FinalUrl(r))

SpecRerender == Init /\ [][NextRerender]_vars

\* the deployed pipeline: render requests, the AI worker consuming
\* segment_generation and the composition worker consuming video_composition,
\* both handling messages as long as there are any; handle_segment_completion
\* is a step of the environment, taken for an existing render job, that
\* nothing in the pipeline is bound to take
AIWorkerStep ==
    \/ \E m \in genQueue, o \in InitiateOutcomes, a \in BOOLEAN : AIInitiate(m, o, a)
    \/ \E o \in PollResults, a \in BOOLEAN : AIPoll(o, a)

CompositionWorkerStep ==
    \/ CompStart
    \/ \E f \in BOOLEAN, d \in Fetches : CompFinish(f, d)

NextLive ==
    \/ CreateRenderJob(WorkerJobs)
    \/ AIWorkerStep
    \/ CompositionWorkerStep
    \/ \E s \in SegIds, r \in JobIds :
          JobExists(r) /\ HandleSegmentCompletion(s, r, SegmentUrl(s))

SpecLive ==
    /\ Init
    /\ [][NextLive]_vars
    /\ WF_vars(AIWorkerStep)
    /\ WF_vars(CompositionWorkerStep)

\* two create_render_job calls and the completions of their tasks, each
\* handler running step by step beside the others
NextConcurrent ==
    \/ CreateBegin(MaxJobs)
    \/ \E c \in orch : CreateDispatch(c)
    \/ \E s \in SegIds : \E r \in JobIds : HSCLoad(s, r)
    \/ \E c \in orch : HSCStore(c)
    \/ \E c \in orch : HSCCheck(c)

SpecConcurrent == Init /\ [][NextConcurrent]_vars

\* jobs are submitted to the in-memory queue while workers pull, complete and
\* fail them
NextQueue ==
    \/ \E j \in QueueJobIds, p \in SeqToSet(JobPriority) : Enqueue(j, p)
    \/ Dequeue
    \/ \E j \in QueueJobIds, st \in {"completed", "failed"} : Finish(j, st)

SpecQueue == Init /\ [][NextQueue]_vars

\* the mock adapter: generations are initiated, their simulations run in the
\* background, and jobs are cancelled at any moment
NextMock ==
    \/ \E j \in MockJobIds : MockInitiate(j)
    \/ \E j \in MockJobIds, f \in BOOLEAN : MockWake(j, f)
    \/ \E j \in MockJobIds, ok \in BOOLEAN : MockGenerated(j, ok)
    \/ \E j \in MockJobIds : MockCancel(j)

SpecMock == Init /\ [][NextMock]_vars

(* ------------------------------- claims -------------------------------- *)
Rows == 1..Len(jobs)

\* composition tasks for render job r that are queued or being handled
CompTasksFor(r) ==
    Len(SelectSeq(compQueue, LAMBDA t : t.render_job_id = r))
    + (IF cw.pc # "idle" /\ cw.task.render_job_id = r THEN 1 ELSE 0)

\* C1: for every render job, 0 <= segments_completed <= segments_total
C1_ProgressWithinTotal ==
    \A r \in Rows :
        /\ 0 <= jobs[r].segments_completed
        /\ jobs[r].segments_completed <= jobs[r].segments_total

\* the status changes of the render job status graph
AllowedJobStep ==
    {<<"pending", "processing">>, <<"processing", "compositing">>,
     <<"compositing", "completed">>, <<"pending", "failed">>,
     <<"processing", "failed">>, <<"compositing", "failed">>}

\* C2: a render job's status moves only along PENDING -> PROCESSING ->
\* COMPOSITING -> COMPLETED or from a non-terminal status to FAILED, and a
\* COMPLETED or FAILED job keeps its status
C2_StatusFollowsDag ==
    [][\A r \in Rows :
          jobs'[r].status # jobs[r].status
              => <<jobs[r].status, jobs'[r].status>> \in AllowedJobStep]_vars

\* C3: a render job is COMPLETED exactly when its final asset URL is set
C3_CompletedIffFinalUrl ==
    \A r \in Rows : jobs[r].status = "completed" <=> jobs[r].s3_final_url # NULL

\* C4: with both workers handling messages as long as there are any, every
\* render job that was created eventually is COMPLETED or FAILED
C4_RenderJobTerminates ==
    \A r \in JobIds :
        [](JobExists(r) => <>(JobExists(r) /\ jobs[r].status \in {"completed", "failed"}))

\* a step that counts one more completion for render job r
C5_CompletionStep(r) ==
    jobs'[r].segments_completed = jobs[r].segments_completed + 1 =>
        /\ jobs'[r].segments_completed = jobs[r].segments_total =>
              /\ jobs'[r].status = "compositing"
              /\ compQueue' = Append(compQueue, CompTask(r, jobs[r].segment_ids))
        /\ jobs'[r].segments_completed < jobs[r].segments_total =>
              /\ jobs'[r].status = jobs[r].status
              /\ compQueue' = compQueue

\* render job r while its counter is below its total
C5_BelowTotal(r) ==
    jobs[r].segments_completed < jobs[r].segments_total =>
        /\ CompTasksFor(r) = 0
        /\ jobs[r].status = "processing"

\* C5: the completion that raises segments_completed to segments_total makes
\* the job COMPOSITING and enqueues one composition task with the job's id and
\* segment_ids (the single project's id is implicit); a completion that leaves
\* the counter below the total changes neither the status nor the queue, and
\* below the total the job is PROCESSING and has no composition task
C5_CompositionAtTotal ==
    /\ [][\A r \in Rows : C5_CompletionStep(r)]_vars
    /\ [](\A r \in Rows : C5_BelowTotal(r))

\* C5 witness: a job whose last completion brought the counter to the total of
\* two, COMPOSITING with its single composition task queued
C5_Witness ==
    \E r \in Rows :
        /\ jobs[r].segments_total = 2
        /\ jobs[r].segments_completed = 2
        /\ jobs[r].status = "compositing"
        /\ compQueue = <<CompTask(r, jobs[r].segment_ids)>>

\* C8: segments_completed grows by one only in a step that turns a PENDING or
\* GENERATING segment into COMPLETED
C8_CountedOncePerSegment ==
    [][\A r \in Rows :
          jobs'[r].segments_completed # jobs[r].segments_completed =>
              /\ jobs'[r].segments_completed = jobs[r].segments_completed + 1
              /\ \E s \in SegIds :
                    /\ segs[s].status \in {"pending", "generating"}
                    /\ segs'[s].status = "completed"]_vars

\* the AI worker takes message m from the generation queue
Receives(m) ==
    \E o \in InitiateOutcomes, a \in BOOLEAN : AIInitiate(m, o, a)

\* the progress counter of the render job that message m addresses
Progress(rj, m) == rj[m.render_job_id].segments_completed

\* C6: handling a redelivered generation message, on a Segment row still as
\* the previous delivery of that message left it, leaves the row's status,
\* asset URL and error message as they were, and leaves the render job rows
\* and the addressed job's progress counter as they were
C6_ReplayKeepsOutcome ==
    [][/\ \A m \in genQueue :
            /\ m.deliveries >= 1
            /\ SegmentOutcome(segs[m.segment_id]) = m.seen
            /\ Receives(m)
            /\ aiw'.pc = "idle"
            => /\ SegmentOutcome(segs'[m.segment_id]) = m.seen
               /\ jobs' = jobs
               /\ Progress(redisJobs', m) = Progress(redisJobs, m)
       /\ /\ aiw.pc = "polling"
          /\ aiw.msg.deliveries >= 1
          /\ SegmentOutcome(segs[aiw.msg.segment_id]) = aiw.msg.seen
          /\ \E o \in PollResults, a \in BOOLEAN : AIPoll(o, a)
          => /\ SegmentOutcome(segs'[aiw.msg.segment_id]) = aiw.msg.seen
             /\ jobs' = jobs
             /\ Progress(redisJobs', aiw.msg) = Progress(redisJobs, aiw.msg)]_vars

\* C7: a generation message received for a segment that is already COMPLETED
\* causes no adapter call, changes neither the Segment rows nor the progress
\* counters, and is acknowledged: it leaves the queue and the worker is idle
C7_CompletedSegmentSkipped ==
    [][\A m \in genQueue :
          segs[m.segment_id].status = "completed" /\ Receives(m)
          => /\ adapterOp' = "none"
             /\ segs' = segs
             /\ jobs' = jobs
             /\ redisJobs' = redisJobs
             /\ genQueue' = genQueue \ {m}
             /\ aiw' = aiw]_vars

\* the step is a create_render_job call: a render job row is added
RenderCreated == Len(jobs') = Len(jobs) + 1

\* the regeneration set as specified, for the project as it is before the call
RegenerationSet ==
    LET done == {r \in Rows : jobs[r].status = "completed"}
    IN IF done = {}
       THEN {s \in Existing : segs[s].status # "completed"}
       ELSE LET prior == CHOOSE r \in done : \A q \in done : q <= r
                ids == {jobs[prior].segment_ids[i] :
                            i \in 1..Len(jobs[prior].segment_ids)}
            IN {s \in Existing : \/ s \notin ids
                                 \/ segs[s].status # "completed"
                                 \/ segs[s].s3_asset_url = NULL}

\* C9: create_render_job publishes one generation task, addressed to the new
\* render job, for each segment of the regeneration set and for no other
\* segment, and marks exactly those segments GENERATING
C9_DispatchesRegenerationSet ==
    [][RenderCreated =>
          /\ genQueue' \ genQueue = {GenTask(s, Len(jobs')) : s \in RegenerationSet}
          /\ genQueue \subseteq genQueue'
          /\ \A s \in SegIds :
                segs'[s] = IF s \in RegenerationSet
                           THEN [segs[s] EXCEPT !.status = "generating"]
                           ELSE segs[s]]_vars

\* C9 witness: a second render requested after the first one COMPLETED; a
\* segment added since, COMPLETED and holding its asset, is dispatched because
\* the first render does not list it, and a segment the first render lists,
\* still COMPLETED, is not dispatched
C9_Witness ==
    /\ Len(jobs) = 2
    /\ jobs[1].status = "completed"
    /\ \E s \in Existing, k \in Existing :
          /\ s \notin SeqToSet(jobs[1].segment_ids)
          /\ GenTask(s, 2) \in genQueue
          /\ segs[s].status = "generating"
          /\ segs[s].s3_asset_url # NULL
          /\ k \in SeqToSet(jobs[1].segment_ids)
          /\ k \in SeqToSet(jobs[2].segment_ids)
          /\ GenTask(k, 2) \notin genQueue
          /\ segs[k].status = "completed"

\* the project's segment ids in timeline order: by order_index, then by id
TimelineOrder ==
    CHOOSE p \in Perms(Existing) :
        \A i \in 1..Len(p) : \A j \in 1..Len(p) :
            i < j => \/ segs[p[i]].order_index < segs[p[j]].order_index
                     \/ /\ segs[p[i]].order_index = segs[p[j]].order_index
                        /\ p[i] < p[j]

\* C10: the render job create_render_job adds has segments_completed = 0,
\* segments_total = the size of the regeneration set, status PROCESSING, and
\* segment_ids = all current segments ordered by (order_index, id)
C10_ReturnedRenderJob ==
    [][RenderCreated =>
          LET job == jobs'[Len(jobs')]
          IN /\ job.segments_completed = 0
             /\ job.segments_total = Cardinality(RegenerationSet)
             /\ job.status = "processing"
             /\ job.segment_ids = TimelineOrder]_vars

\* the generation tasks in queue q for segment s and render job r
TasksFor(q, s, r) == {m \in q : m.segment_id = s /\ m.render_job_id = r}

\* C11: when create_render_job returns, every segment of the regeneration
\* set is GENERATING and the queue holds exactly one generation task with the
\* segment's id and the new job's id, which carries the segment's prompt and
\* model_params; the queue holds no task of the new job for another segment
C11_OneTaskPerRegeneratedSegment ==
    [][RenderCreated =>
          /\ \A s \in RegenerationSet :
                /\ segs'[s].status = "generating"
                /\ Cardinality(TasksFor(genQueue', s, Len(jobs'))) = 1
                /\ \A m \in TasksFor(genQueue', s, Len(jobs')) :
                      /\ m.prompt = segs[s].prompt
                      /\ m.model_params = segs[s].model_params
          /\ \A s \in SegIds \ RegenerationSet :
                TasksFor(genQueue', s, Len(jobs')) = {}]_vars

\* C11 witness: the second render job has a task for a segment whose prompt
\* and model_params were edited, carrying the edited values, and none for a
\* COMPLETED segment
C11_Witness ==
    /\ Len(jobs) = 2
    /\ \E s \in Existing, k \in Existing :
          /\ segs[s].status = "generating"
          /\ segs[s].prompt # DefaultPrompt
          /\ segs[s].model_params # DefaultParams
          /\ \E m \in TasksFor(genQueue, s, 2) :
                m.prompt = segs[s].prompt /\ m.model_params = segs[s].model_params
          /\ segs[k].status = "completed"
          /\ TasksFor(genQueue, k, 2) = {}
          /\ jobs[2].segments_total = 1

\* every segment of the project is COMPLETED and holds its asset
AllSegmentsRendered ==
    \A s \in Existing : segs[s].status = "completed" /\ segs[s].s3_asset_url # NULL

\* C12: create_render_job on a project whose segments are all COMPLETED with
\* a non-null asset URL adds a render job with segments_total = 0 and
\* triggers its composition in the same call, without a generation task or an
\* adapter call: the job is COMPOSITING and its composition task is queued
C12_NothingToGenerateComposesAtOnce ==
    [][RenderCreated /\ AllSegmentsRendered =>
          LET r == Len(jobs')
          IN /\ jobs'[r].segments_total = 0
             /\ genQueue' = genQueue
             /\ adapterOp' = "none"
             /\ jobs'[r].status = "compositing"
             /\ compQueue' = Append(compQueue, CompTask(r, jobs'[r].segment_ids))]_vars

\* a render request for the given project id, accepted or rejected
RenderRequest(project) ==
    \/ project = "P" /\ CreateRenderJob(EditJobs)
    \/ CreateRenderJobRejected(project)

\* C13: a render request for a project with no segments, or for an unknown
\* project id, is answered with an error and changes nothing: no render job
\* row, no segment change, no cache record, no message; a render job is
\* created only for a project that has segments
C13_RejectedRenderHasNoEffect ==
    [][/\ \A project \in ProjectIds :
            (project = "unknown" \/ Existing = {}) /\ RenderRequest(project)
            => /\ apiError' \in {ErrProjectNotFound, ErrNoSegments}
               /\ UNCHANGED <<segs, jobs, redisJobs, genQueue, compQueue>>
       /\ RenderCreated => Existing # {}]_vars

\* C13 witness: a render request was rejected for a project that has no
\* segments left after a render: the first render job, its cache record and
\* its task are as they were
C13_Witness ==
    /\ apiError = ErrNoSegments
    /\ Existing = {}
    /\ Len(jobs) = 1
    /\ redisJobs[1].present
    /\ genQueue # {}

\* C14: for every segment and every update_segment request, the row the
\* request commits carries the provided values and, when prompt or
\* model_params is provided, has status PENDING and a null asset URL, whatever
\* the status was; when only order_index is provided, status and asset URL
\* are as they were
C14_EditResetsSegment ==
    \A s \in Existing, oi \in EditOrders, p \in EditPrompts, mp \in EditParams :
        oi # -1 \/ p # NULL \/ mp # NULL =>
            LET new == UpdatedSegment(segs[s], oi, p, mp)
            IN /\ p # NULL => new.prompt = p
               /\ mp # NULL => new.model_params = mp
               /\ oi # -1 => new.order_index = oi
               /\ IF p # NULL \/ mp # NULL
                  THEN /\ new.status = "pending"
                       /\ new.s3_asset_url = NULL
                  ELSE /\ new.status = segs[s].status
                       /\ new.s3_asset_url = segs[s].s3_asset_url

\* C14 witness: a segment that the AI worker had generated (its external job
\* id is set, the worker is idle and no task is left) is PENDING without asset
\* after an edit of its prompt, while another segment is still COMPLETED with
\* its asset at an order_index it was moved to
C14_Witness ==
    /\ aiw.pc = "idle"
    /\ genQueue = {}
    /\ \E s \in Existing, k \in Existing :
          /\ segs[s].external_job_id # NULL
          /\ segs[s].prompt # DefaultPrompt
          /\ segs[s].status = "pending"
          /\ segs[s].s3_asset_url = NULL
          /\ segs[k].status = "completed"
          /\ segs[k].s3_asset_url # NULL
          /\ Len(jobs) = 1
          /\ \E i \in 1..Len(jobs[1].segment_ids), j \in 1..Len(jobs[1].segment_ids) :
                /\ jobs[1].segment_ids[i] = s
                /\ jobs[1].segment_ids[j] = k
                /\ i < j
                /\ segs[k].order_index < segs[s].order_index

\* C15: every COMPLETED segment has a non-null asset URL, also when an edit or
\* a retry of the segment is committed while the AI worker completes it
C15_CompletedHasAsset ==
    \A s \in Existing : segs[s].status = "completed" => segs[s].s3_asset_url # NULL

\* C16: the segment_ids of a render job never change after its creation:
\* not by the edit, addition, deletion or move of a segment, by a segment
\* completion, by a composition, or by a later create_render_job
C16_SegmentIdsFrozen ==
    [][\A r \in Rows : jobs'[r].segment_ids = jobs[r].segment_ids]_vars

\* C16 witness: the first render job, composed after both its segments
\* completed, still lists a segment that was deleted since, and a second
\* render job lists the remaining segment only
C16_Witness ==
    /\ Len(jobs) = 2
    /\ jobs[1].status \in {"completed", "failed"}
    /\ jobs[1].segments_completed = 2
    /\ \E s \in SegIds, k \in Existing :
          /\ segs[s] = DeletedSegment
          /\ SeqToSet(jobs[1].segment_ids) = {s, k}
          /\ jobs[2].segment_ids = <<k>>

C18_NonRetryableInitiateFails ==
    [][\A m \in genQueue, e \in InitiateOutcomes \ {"ok"} :
          /\ ~IsRetryable(e)
          /\ segs[m.segment_id].exists
          /\ \E a \in BOOLEAN : AIInitiate(m, e, a)
          => /\ segs'[m.segment_id].status = "failed"
             /\ segs'[m.segment_id].error_message = ErrorMessage(e)
             /\ segs'[m.segment_id].error_code = ErrorCode(e)
             /\ jobs'[m.render_job_id].segments_completed
                    = jobs[m.render_job_id].segments_completed
             /\ Progress(redisJobs', m) = Progress(redisJobs, m)
             /\ jobs'[m.render_job_id].status = "processing"
             /\ compQueue' = <<>>]_vars

\* C19: retry_segment on a FAILED segment sets it PENDING and clears
\* error_message, error_code and external_job_id, after which
\* create_render_job would regenerate the segment; on a segment in any other
\* status the request is rejected and changes nothing
C19_RetryResetsFailedOnly ==
    [][\A s \in SegIds :
          /\ RetrySegment(s) =>
                /\ segs[s].status = "failed"
                /\ apiError' = "none"
                /\ segs'[s].status = "pending"
                /\ segs'[s].error_message = NULL
                /\ segs'[s].error_code = NULL
                /\ segs'[s].external_job_id = NULL
                /\ NeedsRegeneration(s, LastCompletedJob)'
          /\ segs[s].status # "failed" /\ (RetrySegment(s) \/ RetrySegmentRejected(s)) =>
                /\ apiError' = ErrNotFailed
                /\ UNCHANGED <<segs, jobs, genQueue, compQueue, redisJobs>>]_vars

\* C19 witness: a segment of the render job whose generation failed (its task
\* is consumed, nothing was counted, the worker is idle) is PENDING with
\* error message and external job id cleared
C19_Witness ==
    /\ Len(jobs) = 1
    /\ aiw.pc = "idle"
    /\ apiError = "none"
    /\ \E s \in Existing :
          /\ s \in SeqToSet(jobs[1].segment_ids)
          /\ TasksFor(genQueue, s, 1) = {}
          /\ redisJobs[1].segments_completed = 0
          /\ segs[s].status = "pending"
          /\ segs[s].error_message = NULL
          /\ segs[s].external_job_id = NULL

\* C20: when the first attempt of initiate_generation fails with a connection
\* error and the second attempt would succeed, the handling of the message
\* retries: the segment is not FAILED, the external job is started and the
\* worker goes on to poll it
C20_ConnectionErrorIsRetried ==
    [][\A m \in genQueue, run \in HttpRuns :
          /\ run[1] = "httpx.ConnectError"
          /\ run[2] = "ok"
          /\ segs[m.segment_id].exists
          /\ AIInitiate(m, InitiateGeneration(run, 1), TRUE)
          => /\ segs'[m.segment_id].status # "failed"
             /\ segs'[m.segment_id].external_job_id # NULL
             /\ aiw'.pc = "polling"]_vars
\* C21: when the adapter reports COMPLETED with the mock adapter's file://
\* video_url, the worker stores the asset under the segment's key, records the
\* returned URL and sets the segment COMPLETED: a successful mock generation
\* never leaves the segment FAILED
C21_MockCompletionIsStored ==
    [][\A a \in BOOLEAN :
          (/\ aiw.pc = "polling"
           /\ segs[aiw.msg.segment_id].exists
           /\ AIPoll(ProcessResult("completed", MockVideoUrl), a))
          => /\ segs'[aiw.msg.segment_id].status = "completed"
             /\ segs'[aiw.msg.segment_id].s3_asset_url = SegmentUrl(aiw.msg.segment_id)]_vars

\* the generation tasks in the queue or being handled by the AI worker
Tasks == genQueue \cup (IF aiw.pc = "idle" THEN {} ELSE {aiw.msg})

\* the generation tasks the AI worker handles in the step
Handled == IF aiw.pc = "idle" THEN genQueue \ genQueue' ELSE {aiw.msg}

\* the step is a step of the AI worker: it calls the adapter
WorkerStep == adapterOp' # "none"

\* C22: a segment outside the regeneration set of a render job gets no
\* generation task of that job, at create_render_job or later, so it is never
\* sent to an adapter for it; create_render_job leaves its row unchanged, and
\* a worker step changes no row but that of the segment whose task it handles
C22_OutsideRegenerationSetUntouched ==
    [][/\ RenderCreated =>
             \A s \in SegIds \ RegenerationSet :
                /\ segs'[s] = segs[s]
                /\ TasksFor(Tasks', s, Len(jobs')) = {}
       /\ ~RenderCreated =>
             \A m \in Tasks' : TasksFor(Tasks, m.segment_id, m.render_job_id) # {}
       /\ WorkerStep =>
             /\ Handled # {}
             /\ \A s \in SegIds :
                   (\A m \in Handled : m.segment_id # s) => segs'[s] = segs[s]]_vars

\* C22 witness: the second render job was requested over a segment that was
\* COMPLETED and one that was not; the worker has handled its only task, which
\* failed, and the other segment is still COMPLETED and holds its asset
C22_Witness ==
    /\ Len(jobs) = 2
    /\ jobs[2].segments_total = 1
    /\ Tasks = {}
    /\ \E s \in Existing, k \in Existing :
          /\ segs[s].status = "failed"
          /\ segs[k].status = "completed"
          /\ segs[k].s3_asset_url = SegmentUrl(k)

\* C23: when the composition of a render job fails (ffmpeg exits non-zero or
\* cannot be run, or no segment file could be fetched), the render job ends
\* FAILED with an error_message and without a final asset URL
C23_FailedCompositionHasNoFinalUrl ==
    [][(/\ cw.pc = "composing"
        /\ \E ffmpegOk \in BOOLEAN, fetched \in Fetches :
              /\ ~ffmpegOk \/ DownloadSegments(cw.task.segment_ids, fetched) = <<>>
              /\ CompFinish(ffmpegOk, fetched))
       => LET r == cw.task.render_job_id
          IN /\ jobs'[r].status = "failed"
             /\ jobs'[r].error_message # NULL
             /\ jobs'[r].s3_final_url = NULL]_vars

\* C24: when a render job becomes COMPOSITING and its composition task is
\* enqueued, every segment the job covers is COMPLETED and holds an asset URL
C24_CompositingMeansAllCompleted ==
    [][Len(compQueue') = Len(compQueue) + 1 =>
          LET t == compQueue'[Len(compQueue')]
          IN /\ jobs'[t.render_job_id].status = "compositing"
             /\ \A s \in SeqToSet(jobs'[t.render_job_id].segment_ids) :
                   /\ segs'[s].status = "completed"
                   /\ segs'[s].s3_asset_url # NULL]_vars

\* the step changes the status of segment s from a to b
StatusStep(s, a, b) == segs[s].status = a /\ segs'[s].status = b

\* C25: the status of a segment changes only from PENDING to GENERATING at
\* create_render_job, from GENERATING to COMPLETED or FAILED in a step of the
\* AI worker, and from COMPLETED or FAILED to PENDING by an edit or a retry
C25_SegmentStatusSteps ==
    [][\A s \in SegIds :
          segs[s].exists /\ segs'[s].exists =>
             \/ segs'[s].status = segs[s].status
             \/ RenderCreated /\ StatusStep(s, "pending", "generating")
             \/ /\ WorkerStep
                /\ \E b \in {"completed", "failed"} : StatusStep(s, "generating", b)
             \/ /\ ~RenderCreated /\ ~WorkerStep
                /\ \E a \in {"completed", "failed"} : StatusStep(s, a, "pending")]_vars

\* C26: when the handling of a generation or composition message raises
\* before the acknowledgement, the message is not lost: it is back in its
\* queue, to be delivered again
C26_RaisedHandlingRequeues ==
    [][/\ \A m \in genQueue :
             (\E d \in Stores : AIRaise(m, d))
             => TasksFor(genQueue', m.segment_id, m.render_job_id) # {}
       /\ (compQueue # <<>> /\ CompRaise)
             => \E i \in 1..Len(compQueue') :
                   compQueue'[i].render_job_id = Head(compQueue).render_job_id]_vars

\* the run of a generation service that never reports a terminal status
NeverTerminal == [n \in 1..MaxAttempts |-> "processing"]

\* C27: when the adapter never reports COMPLETED or FAILED, polling stops
\* after the budget of attempts and the segment is marked FAILED with the
\* timeout message and a TIMEOUT error code
C27_PollBudgetEndsInTimeout ==
    [][\A a \in BOOLEAN, u \in VideoUrls :
          (/\ aiw.pc = "polling"
           /\ segs[aiw.msg.segment_id].exists
           /\ AIPoll(ProcessResult(PollForCompletion(NeverTerminal, 1), u), a))
          => /\ segs'[aiw.msg.segment_id].status = "failed"
             /\ segs'[aiw.msg.segment_id].error_message = ErrTimeout
             /\ segs'[aiw.msg.segment_id].error_code = "COMFYUI_TIMEOUT"]_vars

\* C28: a retryable adapter error (connection, timeout) raised in one poll
\* cycle does not fail the segment: the worker polls again, and when the next
\* attempt reports COMPLETED the segment ends COMPLETED
C28_TransientPollErrorTolerated ==
    [][\A run \in PollRuns, a \in BOOLEAN :
          (/\ aiw.pc = "polling"
           /\ segs[aiw.msg.segment_id].exists
           /\ GetResult(run[1]) \in AdapterErrors
           /\ IsRetryable(GetResult(run[1]))
           /\ run[2] = "completed"
           /\ AIPoll(ProcessResult(PollForCompletion(run, 1), ProviderUrl), a))
          => segs'[aiw.msg.segment_id].status = "completed"]_vars

\* C29: when the poll budget is exhausted, the worker calls the adapter's
\* cancel for the external job in the step that marks the segment FAILED
C29_TimeoutCancelsExternalJob ==
    [][\A a \in BOOLEAN, u \in VideoUrls :
          (/\ aiw.pc = "polling"
           /\ AIPoll(ProcessResult(PollForCompletion(NeverTerminal, 1), u), a))
          => adapterOp' = "cancel"]_vars

\* the segments of ids that have an asset URL
AssetHolders(ids) ==
    {s \in SeqToSet(ids) : segs[s].exists /\ segs[s].s3_asset_url # NULL}

\* the position of segment s in ids
Position(ids, s) == CHOOSE i \in 1..Len(ids) : ids[i] = s

\* the files are in the order their segments have in ids
InOrderOf(files, ids) ==
    \A i, j \in 1..Len(files) :
       i < j => Position(ids, files[i]) < Position(ids, files[j])

\* C30 as stated: the files handed to the concatenator are those of the
\* segments of the composition message that have an asset URL, in the order of
\* the message, whatever the storage delivers
C30_FilesAreAssetHolders ==
    cw.pc = "composing" =>
       \A fetched \in Fetches :
          LET files == DownloadSegments(cw.task.segment_ids, fetched)
          IN /\ SeqToSet(files) = AssetHolders(cw.task.segment_ids)
             /\ InOrderOf(files, cw.task.segment_ids)

\* C30 amended: the files handed to the concatenator are those of the
\* segments of the composition message that have an asset URL and whose file
\* was fetched, each once, in the order the ids have in the message
C30_FilesInMessageOrder ==
    cw.pc = "composing" =>
       \A fetched \in Fetches :
          LET files == DownloadSegments(cw.task.segment_ids, fetched)
          IN /\ SeqToSet(files) = AssetHolders(cw.task.segment_ids) \cap fetched
             /\ InOrderOf(files, cw.task.segment_ids)

\* C30 witness: a composition task is being handled whose message lists
\* segment 2 before segment 1, and both segments hold an asset
C30_Witness ==
    /\ cw.pc = "composing"
    /\ cw.task.segment_ids = <<2, 1>>
    /\ AssetHolders(cw.task.segment_ids) = {1, 2}

\* C31: when the composition worker has handled a message, on the success
\* path and on every error path, no temp file it created for the message is
\* left
C31_NoTempFileLeft ==
    cw.pc = "composing" =>
       \A fetched \in Fetches, inPlace \in Fetches, ffmpegOk \in BOOLEAN :
          TempFilesLeft(cw.task.segment_ids, fetched, inPlace, ffmpegOk) = {}

\* C38: handling a composition message changes no Segment row and deletes no
\* stored segment asset of the message's segment_ids, a file:// asset that is
\* used in place included
C38_CompositionKeepsWhatItReads ==
    [][/\ cw' # cw => segs' = segs
       /\ cw.pc = "composing" =>
             \A fetched \in Fetches, inPlace \in Fetches, ffmpegOk \in BOOLEAN :
                AssetsDeleted(cw.task.segment_ids, fetched, inPlace, ffmpegOk) = {}]_vars

\* C38 witness: a composition whose segments all hold an asset was handled up
\* to the upload of the composed video, where it failed
C38_Witness ==
    /\ cw.pc = "idle"
    /\ \E r \in Rows :
          /\ jobs[r].status = "failed"
          /\ jobs[r].error_message = ErrNoKeyMethod
          /\ \A s \in SeqToSet(jobs[r].segment_ids) :
                segs[s].status = "completed" /\ segs[s].s3_asset_url = SegmentUrl(s)

\* C32: a generation task whose model_params name no registered adapter
\* leaves the segment FAILED with the WORKFLOW error code, and no adapter
\* operation is called
C32_UnknownModelIsWorkflowError ==
    [][\A m \in genQueue, a \in BOOLEAN :
          (/\ Create(m.model_params) # "ok"
           /\ segs[m.segment_id].exists
           /\ AIInitiate(m, Create(m.model_params), a))
          => /\ segs'[m.segment_id].status = "failed"
             /\ segs'[m.segment_id].error_code = "COMFYUI_WORKFLOW_ERROR"
             /\ adapterOp' = "none"]_vars

\* the step is a create_render_job call whose dispatch loop failed
PartialDispatch == RenderCreated /\ apiError' = ErrStartRender

\* C33: when publishing fails partway through the dispatch loop of
\* create_render_job, the render job is PROCESSING with segments_completed
\* below segments_total and the tasks already published stay in the queue;
\* the job never becomes COMPOSITING or COMPLETED afterwards
C33_PartialDispatchNeverProgresses ==
    [][/\ PartialDispatch =>
             genQueue \subseteq genQueue'
       /\ \A r \in 1..Len(jobs') :
             /\ jobs'[r].status = "processing"
             /\ jobs'[r].segments_completed < jobs'[r].segments_total]_vars

\* C34: two create_render calls that run interleaved each add a RenderJob row
\* of their own (segments_completed 0, segments_total the number of segments
\* the call will dispatch) and leave the rows that exist alone; a row changes
\* only in a step of a completion handler called for that render job
C34_RenderJobsIndependent ==
    [][/\ Len(jobs') > Len(jobs) =>
             /\ Len(jobs') = Len(jobs) + 1
             /\ SubSeq(jobs', 1, Len(jobs)) = jobs
             /\ jobs'[Len(jobs')].segments_completed = 0
             /\ \E c \in orch' \ orch :
                   /\ c.op = "create"
                   /\ c.job = Len(jobs')
                   /\ Len(c.rest) = jobs'[Len(jobs')].segments_total
       /\ \A q \in 1..Len(jobs) :
             jobs'[q] # jobs[q] =>
                \E c \in orch \ orch' : c.op = "complete" /\ c.job = q]_vars

\* the second create_render call is inside its dispatch loop, begun before the
\* first call returned, and a completion was counted for the first render job
C34_Witness ==
    /\ Len(jobs) = 2
    /\ \E c \in CallsOf("create", 2) : c.pc = "dispatch"
    /\ \E c \in CallsOf("create", 1) : c.pc = "done"
    /\ jobs[1].segments_completed = 1
    /\ jobs[2].segments_completed = 0

\* the composition tasks published for render job r
CompTasksOf(r) == {i \in 1..Len(compQueue) : compQueue[i].render_job_id = r}

\* C35: when the completion handlers called for different segments of one
\* render job have all returned, segments_completed is the number of those
\* handlers, and if that reaches segments_total exactly one composition task
\* was published for the job
C35_ConcurrentCompletionsCounted ==
    \A r \in 1..Len(jobs) :
        LET calls == CallsOf("complete", r)
        IN (calls # {} /\ \A c \in calls : c.pc = "done") =>
              /\ jobs[r].segments_completed = Cardinality(calls)
              /\ Cardinality(calls) >= jobs[r].segments_total =>
                    Cardinality(CompTasksOf(r)) = 1

\* C36: when the AI worker finishes a generation task and the segment is
\* COMPLETED, the prompt and model_params the task carried (what the asset was
\* generated from) are the segment's prompt and model_params: the result of a
\* task the segment was edited under does not mark the segment COMPLETED
C36_CompletedFromCurrentPrompt ==
    [][\A s \in SegIds :
          (/\ aiw.pc = "polling"
           /\ aiw.msg.segment_id = s
           /\ aiw'.pc = "idle"
           /\ segs'[s].status = "completed") =>
              /\ aiw.msg.prompt = segs'[s].prompt
              /\ aiw.msg.model_params = segs'[s].model_params]_vars

\* C37: every GENERATING segment has a generation task in flight, in the
\* queue or being handled by the AI worker
C37_GeneratingHasTaskInFlight ==
    \A s \in SegIds :
        segs[s].status = "generating" => \E m \in Tasks : m.segment_id = s

\* the rank of a priority: 1 for HIGH, 2 for NORMAL, 3 for LOW
Rank(p) == CHOOSE i \in 1..Len(JobPriority) : JobPriority[i] = p

\* the jobs the InMemoryQueue has returned from dequeue
Returned(q) == {j \in QueueJobIds : q.jobs[j].present /\ q.jobs[j].started_at # 0}

\* the number of places job j holds in the three deques
Places(q, j) ==
    Cardinality({<<p, i>> \in SeqToSet(JobPriority) \X (1..MaxQueueJobs) :
                    i <= Len(Deque(q, p)) /\ Deque(q, p)[i] = j})

\* job y is served before job x: higher priority, or the same priority and
\* enqueued earlier
Before(q, y, x) ==
    \/ Rank(q.jobs[y].priority) < Rank(q.jobs[x].priority)
    \/ /\ q.jobs[y].priority = q.jobs[x].priority
       /\ q.jobs[y].created_at < q.jobs[x].created_at

\* C39: a job returned by dequeue was returned after every job that was in the
\* queue at that moment with a higher priority (HIGH, NORMAL, LOW) or with the
\* same priority and an earlier enqueue; a job waits in exactly one place until
\* it is returned and in none afterwards, so no second dequeue returns it; and
\* the job is RUNNING when dequeue returns it
C39_DequeueOrder ==
    [][LET q == inMemoryQueue'
       IN /\ \A x \in Returned(q) : \A y \in QueueJobIds :
                (/\ q.jobs[y].present
                 /\ q.jobs[y].created_at < q.jobs[x].started_at
                 /\ Before(q, y, x)) =>
                    /\ y \in Returned(q)
                    /\ q.jobs[y].started_at < q.jobs[x].started_at
          /\ \A j \in QueueJobIds :
                q.jobs[j].present =>
                   Places(q, j) = IF j \in Returned(q) THEN 0 ELSE 1
          /\ \A j \in Returned(q) \ Returned(inMemoryQueue) :
                /\ inMemoryQueue.jobs[j].status = "pending"
                /\ q.jobs[j].status = "running"]_vars

\* a LOW job enqueued first was returned last, after two HIGH jobs enqueued
\* later, which were returned in the order of their enqueues
C39_Witness ==
    LET q == inMemoryQueue
    IN /\ Returned(q) = {1, 2, 3}
       /\ q.jobs[1].priority = "low"
       /\ q.jobs[2].priority = "high"
       /\ q.jobs[3].priority = "high"
       /\ q.jobs[2].started_at < q.jobs[3].started_at
       /\ q.jobs[3].started_at < q.jobs[1].started_at
       /\ q.jobs[3].created_at < q.jobs[2].started_at

\* C40: a job of the mock adapter whose cancel_generation returned true (its
\* error is the cancellation message) is FAILED, also when its simulated
\* generation finishes after the cancel
C40_CancelledStaysFailed ==
    \A j \in MockJobIds :
        (mockJobs[j].present /\ mockJobs[j].error = ErrCancelled) =>
            mockJobs[j].status = "failed"

====
